---------------------------- MODULE Spec2Model ----------------------------
(***************************************************************************)
(* A model of the evaluator-based JSLT interpreter                         *)
(* (backend/app/services/jslt).  Program text is a sequence of one-        *)
(* character strings, JSON values are tagged records, and the recursive    *)
(* evaluator is a recursive operator that threads the two mutable objects  *)
(* the Python code shares by reference: the local `variables` dict and the *)
(* service itself.                                                         *)
(***************************************************************************)
EXTENDS Integers, Sequences, FiniteSets, TLC

(***************************************************************************)
(* Characters and Python string primitives                                 *)
(***************************************************************************)
Digits == {"0", "1", "2", "3", "4", "5", "6", "7", "8", "9"}

Letters ==
  {"a", "b", "c", "d", "e", "f", "g", "h", "i", "j", "k", "l", "m", "n", "o",
   "p", "q", "r", "s", "t", "u", "v", "w", "x", "y", "z",
   "A", "B", "C", "D", "E", "F", "G", "H", "I", "J", "K", "L", "M", "N", "O",
   "P", "Q", "R", "S", "T", "U", "V", "W", "X", "Y", "Z"}

\* \s of the regular expressions, and the characters str.strip() removes
IsSpace(c) == c \in {" ", "\n", "\t"}

\* \d
IsDigit(c) == c \in Digits

\* \w
IsWord(c) == c \in Letters \cup Digits \cup {"_"}

Min(S) == CHOOSE x \in S : \A y \in S : x <= y

Max(S) == CHOOSE x \in S : \A y \in S : x >= y

\* the least element of S, none when S is empty
First(S, none) == IF S = {} THEN none ELSE Min(S)

\* the greatest element of S, none when S is empty
Last(S, none) == IF S = {} THEN none ELSE Max(S)

\* value bound to a name in the expression In: value is evaluated once
Let(value, In(_)) == In(value)

\* s[i:] with a 1-based i
From(s, i) == SubSeq(s, i, Len(s))

\* s[i:j) with 1-based i and exclusive j
Slice(s, i, j) == SubSeq(s, i, j - 1)

\* whether p occurs in s at 1-based position i: s[i:i+len(p)] == p
At(s, i, p) ==
  /\ i >= 1
  /\ i + Len(p) - 1 <= Len(s)
  /\ SubSeq(s, i, i + Len(p) - 1) = p

StartsWith(s, p) == At(s, 1, p)

EndsWith(s, p) == Len(s) >= Len(p) /\ At(s, Len(s) - Len(p) + 1, p)

\* str.find, 1-based; 0 stands for Python's -1
Find(s, p) == First({i \in 1..Len(s) : At(s, i, p)}, 0)

\* p in s
Contains(s, p) == \E i \in 1..Len(s) : At(s, i, p)

\* the position of the first character at or after i that is not
\* whitespace, Len(s) + 1 when there is none
SkipSpace(s, i) == First({j \in i..Len(s) : ~IsSpace(s[j])}, Len(s) + 1)

\* the position after the longest run of \w characters starting at i
SkipWord(s, i) == First({j \in i..Len(s) : ~IsWord(s[j])}, Len(s) + 1)

\* the position after the longest run of \d characters starting at i
SkipDigits(s, i) == First({j \in i..Len(s) : ~IsDigit(s[j])}, Len(s) + 1)

LStrip(s) == From(s, SkipSpace(s, 1))

RStrip(s) == SubSeq(s, 1, Last({j \in 1..Len(s) : ~IsSpace(s[j])}, 0))

\* str.strip()
Strip(s) == LStrip(RStrip(s))

\* str.lstrip(".")
LStripDots(s) == From(s, First({j \in 1..Len(s) : s[j] # "."}, Len(s) + 1))

\* str.split("\n")
RECURSIVE SplitLines(_)
SplitLines(s) ==
  Let(Find(s, <<"\n">>), LAMBDA nl :
    IF nl = 0 THEN <<s>>
    ELSE <<Slice(s, 1, nl)>> \o SplitLines(From(s, nl + 1)))

\* "\n".join(lines)
RECURSIVE JoinLines(_)
JoinLines(lines) ==
  IF lines = <<>> THEN <<>>
  ELSE IF Len(lines) = 1 THEN lines[1]
  ELSE lines[1] \o <<"\n">> \o JoinLines(Tail(lines))

(***************************************************************************)
(* The value domain: Python's None, bool, int, float, str, list and dict   *)
(* as records tagged by k.  A str holds its characters, a list its         *)
(* elements, a dict its <<key, value>> pairs in insertion order, a float   *)
(* a decimal <<mantissa, number of decimals>>.                             *)
(***************************************************************************)
PyNone == [k |-> "null", v |-> 0]

PyBool(b) == [k |-> "bool", v |-> b]

PyInt(n) == [k |-> "int", v |-> n]

PyFloat(m, d) == [k |-> "float", v |-> <<m, d>>]

PyStr(s) == [k |-> "str", v |-> s]

PyList(xs) == [k |-> "list", v |-> xs]

PyDict(kv) == [k |-> "dict", v |-> kv]

EmptyDict == <<>>

\* key in d
DictHas(d, key) == \E i \in 1..Len(d) : d[i][1] = key

\* d[key], for a key that is in d
DictAt(d, key) == d[CHOOSE i \in 1..Len(d) : d[i][1] = key][2]

\* d.get(key)
DictGet(d, key) == IF DictHas(d, key) THEN DictAt(d, key) ELSE PyNone

\* A store that leaves the entry of a key that is already in d as it is.
DictSetIfAbsent(d, key, val) ==
  IF DictHas(d, key) THEN d ELSE Append(d, <<key, val>>)

\* d[key] = val: an existing key keeps its place, a new one goes last
DictSet(d, key, val) ==
  IF DictHas(d, key)
  THEN [i \in 1..Len(d) |-> IF d[i][1] = key THEN <<key, val>> ELSE d[i]]
  ELSE Append(d, <<key, val>>)

\* A test that takes every value but None and False for true.
TruthyUnlessNullOrFalse(val) == val.k # "null" /\ val # PyBool(FALSE)

\* bool(v): what `if condition:` tests
Truthy(val) ==
  CASE val.k = "null" -> FALSE
    [] val.k = "bool" -> val.v
    [] val.k = "int" -> val.v # 0
    [] val.k = "float" -> val.v[1] # 0
    [] OTHER -> val.v # <<>>

(***************************************************************************)
(* utils/expression_parser.py                                              *)
(***************************************************************************)
Quotes == {"\"", "'"}

OpeningChars == {"{", "[", "("}

ClosingChars == {"}", "]", ")"}

\* The string literal that opens at position o closes at the next
\* occurrence of the same quote, Len(s) + 1 when there is none.
StringClose(s, o) == First({j \in (o + 1)..Len(s) : s[j] = s[o]}, Len(s) + 1)

\* The string literals the three scanners see from position i on, as
\* <<opening, closing>> positions: in_string is set at the first quote met
\* outside a string and cleared at the next occurrence of the same quote.
RECURSIVE StringSpans(_, _)
StringSpans(s, i) ==
  Let(First({j \in i..Len(s) : s[j] \in Quotes}, 0), LAMBDA o :
    IF o = 0 THEN {}
    ELSE {<<o, StringClose(s, o)>>} \cup StringSpans(s, StringClose(s, o) + 1))

\* the positions outside every string literal
Outside(s, spans) ==
  {i \in 1..Len(s) : \A sp \in spans : i < sp[1] \/ i > sp[2]}

\* The positions at which a scanner is outside every string, is not looking
\* at a bracket, and has depth == 0: the positions where it tests for a
\* delimiter or an operator.  depth before position i is the number of
\* opening minus the number of closing brackets met outside strings.
AtDepthZero(s, outside) ==
  {i \in outside :
     /\ s[i] \notin OpeningChars \cup ClosingChars
     /\ Cardinality({j \in outside : j < i /\ s[j] \in OpeningChars})
          = Cardinality({j \in outside : j < i /\ s[j] \in ClosingChars})}

TopLevel(s) == AtDepthZero(s, Outside(s, StringSpans(s, 1)))

\* The loop of split_by_delimiter and of split_addition_parts from position
\* i on: cuts are the positions where the loop closes a part, and width is
\* the number of characters it consumes there.  The last element is
\* current_part.strip() as the loop leaves it.
RECURSIVE SplitScan(_, _, _, _)
SplitScan(content, cuts, width, i) ==
  Let(First({j \in cuts : j >= i}, 0), LAMBDA cut :
    IF cut = 0 THEN <<Strip(From(content, i))>>
    ELSE <<Strip(Slice(content, i, cut))>> \o SplitScan(content, cuts, width, cut + width))

\* if current_part.strip(): parts.append(...); return parts if parts else
\* [content]
SplitResult(scan, content) ==
  IF scan[Len(scan)] # <<>> THEN scan
  ELSE IF Len(scan) > 1 THEN SubSeq(scan, 1, Len(scan) - 1)
  ELSE <<content>>

\* A split at every occurrence of the delimiter, nested or quoted.
split_at_every_delimiter(content, delimiter) ==
  SplitResult(SplitScan(content,
                        {i \in 1..Len(content) : At(content, i, delimiter)},
                        Len(delimiter), 1),
              content)

\* The characters of a delimiter after its first are consumed unscanned;
\* every delimiter the code passes is a single comma.
split_by_delimiter(content, delimiter) ==
  SplitResult(SplitScan(content,
                        {i \in TopLevel(content) : At(content, i, delimiter)},
                        Len(delimiter), 1),
              content)

split_object_pairs(content) == split_by_delimiter(content, <<",">>)

split_array_elements(content) == split_by_delimiter(content, <<",">>)

split_function_args(args_str) == split_by_delimiter(args_str, <<",">>)

\* a "+" at depth 0 with a space on each side closes a part, and the space
\* after it is skipped
split_addition_parts(expression) ==
  SplitResult(SplitScan(expression,
                        {i \in TopLevel(expression) :
                           /\ expression[i] = "+"
                           /\ i > 1
                           /\ expression[i - 1] = " "
                           /\ i < Len(expression)
                           /\ expression[i + 1] = " "},
                        2, 1),
              expression)

LetKeywords == << <<"l", "e", "t">>, <<"f", "o", "r">>, <<"i", "f">> >>

\* re.search(r"\s+(keyword)\s*[\(\w]", expression).start(), 1-based; 0 when
\* there is no match
KeywordAt(expression, keyword, j, m) ==
  /\ At(expression, j, keyword)
  /\ m <= Len(expression)
  /\ (expression[m] = "(" \/ IsWord(expression[m]))

KeywordSearch(expression, keyword) ==
  First({i \in 1..Len(expression) :
           /\ IsSpace(expression[i])
           /\ \E j \in {SkipSpace(expression, i)} :
                KeywordAt(expression, keyword, j,
                          SkipSpace(expression, j + Len(keyword)))}, 0)

\* <<value_expr, rest_expr>>
split_let_expression(expression) ==
  Let(First({KeywordSearch(expression, LetKeywords[n]) : n \in 1..Len(LetKeywords)}
              \ {0}, 0),
      LAMBDA split_pos :
        IF split_pos # 0
        THEN <<Strip(Slice(expression, 1, split_pos)), Strip(From(expression, split_pos))>>
        ELSE <<Strip(expression), <<>>>>)

is_string_literal(expression) ==
  \/ StartsWith(expression, <<"\"">>) /\ EndsWith(expression, <<"\"">>)
  \/ StartsWith(expression, <<"'">>) /\ EndsWith(expression, <<"'">>)

\* ^-?\d+(\.\d+)?$
is_number_literal(expression) ==
  \E a \in {IF StartsWith(expression, <<"-">>) THEN 2 ELSE 1} :
    \E b \in {SkipDigits(expression, a)} :
      /\ b > a
      /\ \/ b = Len(expression) + 1
         \/ /\ expression[b] = "."
            /\ b + 1 <= Len(expression)
            /\ SkipDigits(expression, b + 1) = Len(expression) + 1

KwTrue == <<"t", "r", "u", "e">>

KwFalse == <<"f", "a", "l", "s", "e">>

KwNull == <<"n", "u", "l", "l">>

is_boolean_literal(expression) == expression \in {KwTrue, KwFalse}

is_null_literal(expression) == expression = KwNull

(***************************************************************************)
(* Python's ==, ordering, str() and int() on the value domain              *)
(***************************************************************************)
DigitChars == <<"0", "1", "2", "3", "4", "5", "6", "7", "8", "9">>

\* the characters in code-point order, for the ordering of str
CodePoints ==
  <<"\t", "\n", " ", "!", "\"", "#", "$", "%", "&", "'", "(", ")", "*", "+",
    ",", "-", ".", "/", "0", "1", "2", "3", "4", "5", "6", "7", "8", "9", ":",
    ";", "<", "=", ">", "?", "@", "A", "B", "C", "D", "E", "F", "G", "H", "I",
    "J", "K", "L", "M", "N", "O", "P", "Q", "R", "S", "T", "U", "V", "W", "X",
    "Y", "Z", "[", "]", "^", "_", "a", "b", "c", "d", "e", "f", "g",
    "h", "i", "j", "k", "l", "m", "n", "o", "p", "q", "r", "s", "t", "u", "v",
    "w", "x", "y", "z", "{", "|", "}", "~">>

Ord(c) == CHOOSE i \in 1..Len(CodePoints) : CodePoints[i] = c

DigitValue(c) == (CHOOSE i \in 1..Len(DigitChars) : DigitChars[i] = c) - 1

RECURSIVE Pow10(_)
Pow10(n) == IF n = 0 THEN 1 ELSE 10 * Pow10(n - 1)

\* int(s) of a string of digits
RECURSIVE DigitsToInt(_)
DigitsToInt(s) ==
  IF s = <<>> THEN 0
  ELSE 10 * DigitsToInt(SubSeq(s, 1, Len(s) - 1)) + DigitValue(s[Len(s)])

\* str(n) of an int n >= 0
RECURSIVE NatToChars(_)
NatToChars(n) ==
  IF n < 10 THEN <<DigitChars[n + 1]>>
  ELSE NatToChars(n \div 10) \o <<DigitChars[(n % 10) + 1]>>

\* str(n) of an int
IntToChars(n) == IF n < 0 THEN <<"-">> \o NatToChars(-n) ELSE NatToChars(n)

\* a decimal without trailing zeros in its fraction
RECURSIVE Normal(_, _)
Normal(m, d) ==
  IF d > 0 /\ m % 10 = 0 THEN Normal(m \div 10, d - 1) ELSE <<m, d>>

\* int(expression) of a literal -?\d+
ParseInt(expression) ==
  IF StartsWith(expression, <<"-">>)
  THEN PyInt(-DigitsToInt(Tail(expression)))
  ELSE PyInt(DigitsToInt(expression))

\* float(expression) of a literal -?\d+\.\d+
UnsignedFloat(body, dot) ==
  Normal(DigitsToInt(Slice(body, 1, dot) \o From(body, dot + 1)), Len(body) - dot)

ParseFloat(expression) ==
  IF StartsWith(expression, <<"-">>)
  THEN Let(UnsignedFloat(Tail(expression), Find(Tail(expression), <<".">>)),
           LAMBDA n : PyFloat(-n[1], n[2]))
  ELSE Let(UnsignedFloat(expression, Find(expression, <<".">>)),
           LAMBDA n : PyFloat(n[1], n[2]))

\* isinstance(v, (int, float)); a bool is an int
IsNumber(val) == val.k \in {"bool", "int", "float"}

\* the decimal <<mantissa, decimals>> of a number
Decimal(val) ==
  CASE val.k = "bool" -> <<IF val.v THEN 1 ELSE 0, 0>>
    [] val.k = "int" -> <<val.v, 0>>
    [] val.k = "float" -> val.v

\* the sign of a - b for two numbers: -1, 0 or 1
Sign(x, y) == IF x < y THEN -1 ELSE IF x = y THEN 0 ELSE 1

NumCompare(a, b) ==
  Sign(Decimal(a)[1] * Pow10(Decimal(b)[2]), Decimal(b)[1] * Pow10(Decimal(a)[2]))

\* the sign of the lexicographic comparison of two strings
RECURSIVE StrCompare(_, _)
StrCompare(s, t) ==
  IF s = <<>> THEN (IF t = <<>> THEN 0 ELSE -1)
  ELSE IF t = <<>> THEN 1
  ELSE IF Ord(s[1]) < Ord(t[1]) THEN -1
  ELSE IF Ord(s[1]) > Ord(t[1]) THEN 1
  ELSE StrCompare(Tail(s), Tail(t))

\* a == b
RECURSIVE PyEq(_, _)
PyEq(a, b) ==
  IF IsNumber(a) /\ IsNumber(b) THEN NumCompare(a, b) = 0
  ELSE IF a.k # b.k THEN FALSE
  ELSE CASE a.k = "null" -> TRUE
         [] a.k = "str" -> a.v = b.v
         [] a.k = "list" ->
              /\ Len(a.v) = Len(b.v)
              /\ \A i \in 1..Len(a.v) : PyEq(a.v[i], b.v[i])
         [] a.k = "dict" ->
              /\ Len(a.v) = Len(b.v)
              /\ \A i \in 1..Len(a.v) :
                   /\ DictHas(b.v, a.v[i][1])
                   /\ PyEq(a.v[i][2], DictAt(b.v, a.v[i][1]))

\* The ordering of two values: -1, 0 or 1, or 2 when Python raises
\* TypeError ('<' not supported between instances of ...).
RECURSIVE PyOrder(_, _)
PyOrder(a, b) ==
  IF IsNumber(a) /\ IsNumber(b) THEN NumCompare(a, b)
  ELSE IF a.k = "str" /\ b.k = "str" THEN StrCompare(a.v, b.v)
  ELSE IF a.k = "list" /\ b.k = "list"
  THEN Let(First({i \in 1..Len(a.v) : i <= Len(b.v) /\ ~PyEq(a.v[i], b.v[i])}, 0),
           LAMBDA diff :
             IF diff # 0 THEN PyOrder(a.v[diff], b.v[diff])
             ELSE Sign(Len(a.v), Len(b.v)))
  ELSE 2

\* str(v) and repr(v)
RECURSIVE PyStrOf(_, _)
PyStrOf(val, repr) ==
  CASE val.k = "null" -> <<"N", "o", "n", "e">>
    [] val.k = "bool" ->
         IF val.v THEN <<"T", "r", "u", "e">> ELSE <<"F", "a", "l", "s", "e">>
    [] val.k = "int" -> IntToChars(val.v)
    [] val.k = "float" ->
         LET m    == val.v[1]
             d    == val.v[2]
             abs  == IF m < 0 THEN -m ELSE m
             frac == NatToChars(abs % Pow10(d))
             pad  == [i \in 1..(d - Len(frac)) |-> "0"]
         IN  (IF m < 0 THEN <<"-">> ELSE <<>>) \o NatToChars(abs \div Pow10(d))
               \o <<".">> \o (IF d = 0 THEN <<"0">> ELSE pad \o frac)
    [] val.k = "str" -> IF repr THEN <<"'">> \o val.v \o <<"'">> ELSE val.v
    [] val.k = "list" ->
         LET RECURSIVE Items(_)
             Items(i) ==
               IF i > Len(val.v) THEN <<>>
               ELSE (IF i > 1 THEN <<",", " ">> ELSE <<>>)
                      \o PyStrOf(val.v[i], TRUE) \o Items(i + 1)
         IN  <<"[">> \o Items(1) \o <<"]">>
    [] val.k = "dict" ->
         LET RECURSIVE Pairs(_)
             Pairs(i) ==
               IF i > Len(val.v) THEN <<>>
               ELSE (IF i > 1 THEN <<",", " ">> ELSE <<>>)
                      \o <<"'">> \o val.v[i][1] \o <<"'", ":", " ">>
                      \o PyStrOf(val.v[i][2], TRUE) \o Pairs(i + 1)
         IN  <<"{">> \o Pairs(1) \o <<"}">>

(***************************************************************************)
(* functions/builtin_functions.py                                          *)
(***************************************************************************)
\* what a call of execute gives: a value, or an exception
Returned(val) == [ok |-> TRUE, val |-> val, err |-> [msg |-> "", arg |-> <<>>]]

Thrown(msg, arg) == [ok |-> FALSE, val |-> PyNone, err |-> [msg |-> msg, arg |-> arg]]

\* str.lower()
Lower(s) ==
  LET upper == <<"A", "B", "C", "D", "E", "F", "G", "H", "I", "J", "K", "L", "M",
                 "N", "O", "P", "Q", "R", "S", "T", "U", "V", "W", "X", "Y", "Z">>
      lower == <<"a", "b", "c", "d", "e", "f", "g", "h", "i", "j", "k", "l", "m",
                 "n", "o", "p", "q", "r", "s", "t", "u", "v", "w", "x", "y", "z">>
  IN  [i \in 1..Len(s) |->
         IF \E n \in 1..Len(upper) : upper[n] = s[i]
         THEN lower[CHOOSE n \in 1..Len(upper) : upper[n] = s[i]]
         ELSE s[i]]

\* str.isdigit()
IsDigitString(s) == s # <<>> /\ \A i \in 1..Len(s) : IsDigit(s[i])

\* float(s) of a string: <<TRUE, value>>, or <<FALSE, _>> for ValueError.
\* Of the forms float() accepts, the signed decimals \d+ and \d+\.\d+ (with
\* surrounding whitespace) are modelled.
UnsignedFloatOfString(body) ==
  IF IsDigitString(body) THEN <<TRUE, PyFloat(DigitsToInt(body), 0)>>
  ELSE IF is_number_literal(body) /\ ~StartsWith(body, <<"-">>)
  THEN <<TRUE, ParseFloat(body)>>
  ELSE <<FALSE, PyNone>>

Negated(f) == <<f[1], IF f[1] THEN PyFloat(-f[2].v[1], f[2].v[2]) ELSE f[2]>>

SignedFloatOfString(t) ==
  IF StartsWith(t, <<"-">>) THEN Negated(UnsignedFloatOfString(Tail(t)))
  ELSE IF StartsWith(t, <<"+">>) THEN UnsignedFloatOfString(Tail(t))
  ELSE UnsignedFloatOfString(t)

FloatOfString(s) == SignedFloatOfString(Strip(s))

\* round(x) of a float x = m / 10^d: to the nearest integer, a tie to the
\* even one
RoundHalfEven(m, p, floor) ==
  IF 2 * (m - floor * p) < p THEN floor
  ELSE IF 2 * (m - floor * p) > p THEN floor + 1
  ELSE IF floor % 2 = 0 THEN floor ELSE floor + 1

\* TLA+'s \div rounds down, as floor does
RoundFloat(m, d) == RoundHalfEven(m, Pow10(d), m \div Pow10(d))

SizeFunction(value) ==
  IF value.k \in {"list", "dict", "str"} THEN Returned(PyInt(Len(value.v)))
  ELSE Returned(PyInt(0))

StringFunction(value) ==
  IF value.k = "null" THEN Returned(PyStr(<<>>))
  ELSE Returned(PyStr(PyStrOf(value, FALSE)))

NumberFunction(value) ==
  IF IsNumber(value) THEN Returned(value)
  ELSE IF value.k = "str"
  THEN IF IsDigitString(value.v) THEN Returned(PyInt(DigitsToInt(value.v)))
       ELSE Let(FloatOfString(value.v), LAMBDA f :
              IF f[1] THEN Returned(f[2]) ELSE Returned(PyInt(0)))
  ELSE Returned(PyInt(0))

BooleanTrueWords ==
  {<<"t", "r", "u", "e">>, <<"1">>, <<"y", "e", "s">>, <<"o", "n">>}

\* A conversion that takes every value that is not a bool, a string, a
\* number or None for true.
BooleanFunctionOtherTrue(value) ==
  IF value.k = "bool" THEN Returned(value)
  ELSE IF value.k = "str" THEN Returned(PyBool(Lower(value.v) \in BooleanTrueWords))
  ELSE IF value.k \in {"int", "float"} THEN Returned(PyBool(Decimal(value)[1] # 0))
  ELSE Returned(PyBool(value.k # "null"))

BooleanFunction(value) ==
  IF value.k = "bool" THEN Returned(value)
  ELSE IF value.k = "str" THEN Returned(PyBool(Lower(value.v) \in BooleanTrueWords))
  ELSE IF value.k \in {"int", "float"} THEN Returned(PyBool(Decimal(value)[1] # 0))
  ELSE Returned(PyBool(Truthy(value)))

RoundFunction(value) ==
  IF IsNumber(value)
  THEN Returned(PyInt(RoundFloat(Decimal(value)[1], Decimal(value)[2])))
  ELSE IF value.k = "str"
  THEN Let(FloatOfString(value.v), LAMBDA f :
         IF f[1] THEN Returned(PyInt(RoundFloat(f[2].v[1], f[2].v[2])))
         ELSE Thrown("could not convert string to float: ", PyStrOf(value, TRUE)))
  ELSE Thrown("float() argument must be a string or a real number", <<>>)

\* The names of BUILTIN_FUNCTIONS, in registration order.
BUILTIN_FUNCTIONS ==
  << <<"s", "i", "z", "e">>, <<"s", "t", "r", "i", "n", "g">>,
     <<"n", "u", "m", "b", "e", "r">>, <<"b", "o", "o", "l", "e", "a", "n">>,
     <<"r", "o", "u", "n", "d">> >>

\* func.execute(*args) of the function registered as func: one of the
\* builtins (named by its position in BUILTIN_FUNCTIONS), or a function of
\* the host that returns its argument.  Each takes exactly one argument.
Execute(func, args) ==
  IF Len(args) # 1
  THEN Thrown("execute() takes 2 positional arguments", <<>>)
  ELSE CASE func = 1 -> SizeFunction(args[1])
         [] func = 2 -> StringFunction(args[1])
         [] func = 3 -> NumberFunction(args[1])
         [] func = 4 -> BooleanFunction(args[1])
         [] func = 5 -> RoundFunction(args[1])
         [] OTHER -> Returned(args[1])

(***************************************************************************)
(* evaluators/path_evaluator.py                                            *)
(***************************************************************************)
\* re.match(r"^([^.\[]+)\[(\d+)\](.*)$", path), with the field name ending
\* before position b and the digits before position c
ArrayMatchAt(path, b, c) ==
  IF /\ b > 1
     /\ path[b] = "["
     /\ c > b + 1
     /\ c <= Len(path)
     /\ path[c] = "]"
     /\ ~Contains(From(path, c + 1), <<"\n">>)
  THEN [matched |-> TRUE, field_name |-> Slice(path, 1, b),
        index_str |-> Slice(path, b + 1, c), remaining |-> From(path, c + 1)]
  ELSE [matched |-> FALSE, field_name |-> <<>>, index_str |-> <<>>,
        remaining |-> <<>>]

\* The match of a pattern that takes any text between the brackets for the
\* index, r"^([^.\[]+)\[([^\]]+)\](.*)$".
ArrayMatchAnyIndex(path) ==
  Let(First({i \in 1..Len(path) : path[i] \in {".", "["}}, 0), LAMBDA b :
    Let(First({i \in (b + 1)..Len(path) : path[i] = "]"}, Len(path) + 1),
        LAMBDA c :
      IF b > 1 /\ path[b] = "[" /\ c > b + 1 /\ c <= Len(path)
      THEN [matched |-> TRUE, field_name |-> Slice(path, 1, b),
            index_str |-> Slice(path, b + 1, c), remaining |-> From(path, c + 1)]
      ELSE [matched |-> FALSE, field_name |-> <<>>, index_str |-> <<>>,
            remaining |-> <<>>]))

ArrayMatch(path) ==
  Let(First({i \in 1..Len(path) : path[i] \in {".", "["}}, 0), LAMBDA b :
    ArrayMatchAt(path, b, SkipDigits(path, b + 1)))

\* int(index_str): ValueError unless index_str is a string of digits
IntOf(index_str) ==
  IF IsDigitString(index_str) THEN Returned(PyInt(DigitsToInt(index_str)))
  ELSE Thrown("invalid literal for int() with base 10: ", index_str)

\* the nesting depth of a value
RECURSIVE ValueDepth(_)
ValueDepth(val) ==
  IF val.k = "list" /\ val.v # <<>>
  THEN 1 + Max({ValueDepth(val.v[i]) : i \in 1..Len(val.v)})
  ELSE IF val.k = "dict" /\ val.v # <<>>
  THEN 1 + Max({ValueDepth(val.v[i][2]) : i \in 1..Len(val.v)})
  ELSE 0

Diverged == Thrown("the loop does not end", <<>>)

\* The while loop of PathEvaluator.evaluate.  An iteration either returns,
\* shortens path, or keeps path and moves current one level down; steps
\* counts the iterations left before the walk counts as not ending.
RECURSIVE PathWalk(_, _, _)
PathWalk(path, current, steps) ==
  IF path = <<>> THEN Returned(current)
  ELSE IF steps = 0 THEN Diverged
  ELSE Let(ArrayMatch(path), LAMBDA array_match :
    IF array_match.matched
    THEN IF current.k # "dict" THEN Returned(PyNone)
         ELSE Let(DictGet(current.v, array_match.field_name), LAMBDA field :
           IF field.k = "null" THEN Returned(PyNone)
           ELSE Let(IntOf(array_match.index_str), LAMBDA index :
             IF ~index.ok THEN index
             ELSE IF field.k = "list" /\ index.val.v < Len(field.v)
             THEN PathWalk(LStripDots(array_match.remaining),
                           field.v[index.val.v + 1], steps - 1)
             ELSE Returned(PyNone)))
    ELSE Let(Find(path, <<".">>), LAMBDA dot_pos :
         Let(Find(path, <<"[">>), LAMBDA bracket_pos :
      IF dot_pos = 0 /\ bracket_pos = 0
      THEN IF current.k = "dict" THEN Returned(DictGet(current.v, path))
           ELSE Returned(PyNone)
      ELSE IF current.k # "dict" THEN Returned(PyNone)
      ELSE Let(First({p \in {dot_pos, bracket_pos} : p # 0}, 0), LAMBDA next_sep :
           Let(DictGet(current.v, Slice(path, 1, next_sep)), LAMBDA field :
             IF field.k = "null" THEN Returned(PyNone)
             ELSE IF next_sep = dot_pos
             THEN PathWalk(From(path, dot_pos + 1), field, steps - 1)
             ELSE PathWalk(From(path, bracket_pos), field, steps - 1))))))

PathCanEvaluate(expression) == StartsWith(expression, <<".">>)

PathEvaluate(expression, context) ==
  IF expression = <<".">> THEN Returned(context)
  ELSE PathWalk(Tail(expression), context,
                Len(expression) + ValueDepth(context) + 1)

(***************************************************************************)
(* The recursive evaluation.  A call of _evaluate_expression, or of an     *)
(* evaluator, gives a record: the value returned or the exception raised,  *)
(* and the state in which it leaves the two objects it was handed by       *)
(* reference, its caller's `variables` dict and the service.  Three fields *)
(* observe the run: shrinks (every recursive call below was made on an     *)
(* expression strictly shorter than its caller's), tried (the evaluators   *)
(* whose can_evaluate was consulted for this expression, in order) and by  *)
(* (the evaluator whose evaluate was called for it).                       *)
(***************************************************************************)
NoError == [msg |-> "", arg |-> <<>>]

Ret(val, variables, svc) ==
  [ok |-> TRUE, val |-> val, err |-> NoError, variables |-> variables,
   svc |-> svc, shrinks |-> TRUE, tried |-> <<>>, by |-> ""]

Raise(msg, arg, variables, svc) ==
  [ok |-> FALSE, val |-> PyNone, err |-> [msg |-> msg, arg |-> arg],
   variables |-> variables, svc |-> svc, shrinks |-> TRUE, tried |-> <<>>,
   by |-> ""]

\* An empty expression raises.
EmptyExpressionRaises(variables, svc) ==
  Raise("Empty expression", <<>>, variables, svc)

\* if not expression: return None
EmptyExpression(variables, svc) == Ret(PyNone, variables, svc)

\* the depth of nested _evaluate_expression calls at which the interpreter
\* raises RecursionError
RecursionLimit == 7

RECURSIVE evaluate_expression(_, _, _, _, _)

\* the record of a call made on sub while evaluating expression
Called(r, sub, expression) ==
  [r EXCEPT !.shrinks = r.shrinks /\ Len(sub) < Len(expression),
            !.tried = <<>>, !.by = ""]

\* self.service._evaluate_expression(sub, context, variables), called while
\* evaluating expression
Call(sub, expression, context, variables, svc, depth) ==
  Called(evaluate_expression(sub, context, variables, svc, depth + 1), sub,
         expression)

\* r2, which ran after r1 in the same evaluator
After(r1, r2) == [r2 EXCEPT !.shrinks = r1.shrinks /\ r2.shrinks]

\* One _evaluate_expression call after the other, each on the `variables`
\* and the service as the one before left them, up to the first that
\* raises.  items holds <<expression, context>> pairs; the values come back
\* as a list in val.
RECURSIVE EvalEach(_, _, _, _)
EvalEach(items, expression, acc, depth) ==
  IF items = <<>> THEN acc
  ELSE Let(After(acc, Call(Strip(items[1][1]), expression, items[1][2],
                           acc.variables, acc.svc, depth)), LAMBDA r :
         IF ~r.ok THEN r
         ELSE EvalEach(Tail(items), expression,
                       [r EXCEPT !.val = PyList(Append(acc.val.v, r.val))], depth))

(***************************************************************************)
(* evaluators/literal_evaluator.py                                         *)
(***************************************************************************)
LiteralPriority == 40

LiteralCanEvaluate(expression) ==
  \/ is_string_literal(expression)
  \/ is_number_literal(expression)
  \/ is_boolean_literal(expression)
  \/ is_null_literal(expression)

LiteralEvaluate(expression, variables, svc) ==
  IF is_string_literal(expression)
  THEN Ret(PyStr(SubSeq(expression, 2, Len(expression) - 1)), variables, svc)
  ELSE IF is_number_literal(expression)
  THEN Ret(IF Contains(expression, <<".">>) THEN ParseFloat(expression)
           ELSE ParseInt(expression), variables, svc)
  ELSE IF expression = KwTrue THEN Ret(PyBool(TRUE), variables, svc)
  ELSE IF expression = KwFalse THEN Ret(PyBool(FALSE), variables, svc)
  ELSE IF expression = KwNull THEN Ret(PyNone, variables, svc)
  ELSE Raise("Invalid literal expression: ", expression, variables, svc)

(***************************************************************************)
(* evaluators/array_evaluator.py and evaluators/object_evaluator.py        *)
(***************************************************************************)
ArrayPriority == 70

ArrayCanEvaluate(expression) ==
  StartsWith(expression, <<"[">>) /\ EndsWith(expression, <<"]">>)

\* the expressions of a list, each to be evaluated in context
InContext(expressions, context) ==
  [i \in 1..Len(expressions) |-> <<expressions[i], context>>]

ArrayEvaluate(expression, context, variables, svc, depth) ==
  Let(Strip(SubSeq(expression, 2, Len(expression) - 1)), LAMBDA content :
    IF content = <<>> THEN Ret(PyList(<<>>), variables, svc)
    ELSE EvalEach(InContext(split_array_elements(content), context),
                  expression, Ret(PyList(<<>>), variables, svc), depth))

ObjectPriority == 70

ObjectCanEvaluate(expression) ==
  StartsWith(expression, <<"{">>) /\ EndsWith(expression, <<"}">>)

\* A key that keeps its quotes.
KeptQuoted(key) == key

\* key without its quotes when it has them
Unquoted(key) ==
  IF StartsWith(key, <<"\"">>) /\ EndsWith(key, <<"\"">>)
  THEN SubSeq(key, 2, Len(key) - 1)
  ELSE IF StartsWith(key, <<"'">>) /\ EndsWith(key, <<"'">>)
  THEN SubSeq(key, 2, Len(key) - 1)
  ELSE key

\* the key of a pair: stripped, and without its quotes when it has them
ObjectKey(key_part) == Unquoted(Strip(key_part))

\* the loop over the pairs; acc.val is the result dict so far
RECURSIVE ObjectPairs(_, _, _, _, _)
ObjectPairs(pairs, expression, context, acc, depth) ==
  IF pairs = <<>> THEN acc
  ELSE Let(Find(pairs[1], <<":">>), LAMBDA colon :
    IF colon = 0
    THEN After(acc, Raise("Invalid object pair: ", pairs[1], acc.variables,
                          acc.svc))
    ELSE Let(After(acc, Call(Strip(From(pairs[1], colon + 1)), expression,
                             context, acc.variables, acc.svc, depth)), LAMBDA r :
      IF ~r.ok THEN r
      ELSE ObjectPairs(Tail(pairs), expression, context,
             [r EXCEPT !.val = PyDict(DictSet(acc.val.v,
                                              ObjectKey(Slice(pairs[1], 1, colon)),
                                              r.val))],
             depth)))

ObjectEvaluate(expression, context, variables, svc, depth) ==
  Let(Strip(SubSeq(expression, 2, Len(expression) - 1)), LAMBDA content :
    IF content = <<>> THEN Ret(PyDict(EmptyDict), variables, svc)
    ELSE ObjectPairs(split_object_pairs(content), expression, context,
                     Ret(PyDict(EmptyDict), variables, svc), depth))

(***************************************************************************)
(* evaluators/function_evaluator.py                                        *)
(***************************************************************************)
FunctionPriority == 60

\* re.match(r"^(\w+)\s*\(([^)]*)\)$", expression), with the name ending
\* before position b and the parenthesis expected at position c
FuncMatchAt(expression, b, c) ==
  IF /\ b > 1
     /\ c < Len(expression)
     /\ expression[c] = "("
     /\ expression[Len(expression)] = ")"
     /\ \A i \in (c + 1)..(Len(expression) - 1) : expression[i] # ")"
  THEN [matched |-> TRUE, func_name |-> Slice(expression, 1, b),
        args_str |-> Slice(expression, c + 1, Len(expression))]
  ELSE [matched |-> FALSE, func_name |-> <<>>, args_str |-> <<>>]

FuncMatch(expression) ==
  Let(SkipWord(expression, 1), LAMBDA b :
    FuncMatchAt(expression, b, SkipSpace(expression, b)))

FunctionCanEvaluate(expression) == FuncMatch(expression).matched

\* func.execute(*args), after the arguments were evaluated with result args
Executed(args, out) ==
  IF ~args.ok THEN args
  ELSE [args EXCEPT !.ok = out.ok, !.val = out.val, !.err = out.err]

\* A call that evaluates its arguments first and looks the name up after.
FunctionEvaluateArgumentsFirst(expression, context, variables, svc, depth) ==
  Let(FuncMatch(expression), LAMBDA func_match :
    IF ~func_match.matched
    THEN Raise("Invalid function call: ", expression, variables, svc)
    ELSE Let(IF Strip(func_match.args_str) = <<>>
             THEN Ret(PyList(<<>>), variables, svc)
             ELSE EvalEach(InContext(split_function_args(func_match.args_str),
                                     context),
                           expression, Ret(PyList(<<>>), variables, svc), depth),
             LAMBDA args :
               IF ~args.ok THEN args
               ELSE IF ~DictHas(svc.functions, func_match.func_name)
               THEN Raise("Unknown function: ", func_match.func_name, variables,
                          svc)
               ELSE Executed(args, Execute(DictAt(args.svc.functions,
                                                  func_match.func_name),
                                           args.val.v))))

FunctionEvaluate(expression, context, variables, svc, depth) ==
  Let(FuncMatch(expression), LAMBDA func_match :
    IF ~func_match.matched
    THEN Raise("Invalid function call: ", expression, variables, svc)
    ELSE IF ~DictHas(svc.functions, func_match.func_name)
    THEN Raise("Unknown function: ", func_match.func_name, variables, svc)
    ELSE Let(IF Strip(func_match.args_str) = <<>>
             THEN Ret(PyList(<<>>), variables, svc)
             ELSE EvalEach(InContext(split_function_args(func_match.args_str),
                                     context),
                           expression, Ret(PyList(<<>>), variables, svc), depth),
             LAMBDA args :
               Executed(args, IF args.ok
                              THEN Execute(DictAt(args.svc.functions,
                                                  func_match.func_name),
                                           args.val.v)
                              ELSE Returned(PyNone))))

(***************************************************************************)
(* evaluators/variable_evaluator.py                                        *)
(***************************************************************************)
VariablePriority == 100

KwLet == <<"l", "e", "t", " ">>

VariableCanEvaluate(expression) ==
  StartsWith(expression, <<"$">>) \/ StartsWith(expression, KwLet)

\* the lookup of var_name: the scope handed in, then the scope of the service
Lookup(var_name, variables, svc) ==
  IF DictHas(variables, var_name)
  THEN Ret(DictAt(variables, var_name), variables, svc)
  ELSE IF DictHas(svc.variables, var_name)
  THEN Ret(DictAt(svc.variables, var_name), variables, svc)
  ELSE Raise("Undefined variable: $", var_name, variables, svc)

\* re.match(r"^\$(\w+)", expression), then the lookup of the name
evaluate_variable_reference(expression, variables, svc) ==
  Let(SkipWord(expression, 2), LAMBDA e :
    IF e > 2 THEN Lookup(Slice(expression, 2, e), variables, svc)
    ELSE Raise("Invalid variable reference: ", expression, variables, svc))

\* re.match(r"^let\s+(\w+)\s*=\s*", expression), with the name from
\* position a to before position b and the `=` expected at position c: eq
\* is the position after the `=`, end the position after the whitespace
\* that follows it
LetHeadAt(expression, a, b, c) ==
  IF /\ StartsWith(expression, <<"l", "e", "t">>)
     /\ a > 4
     /\ b > a
     /\ c <= Len(expression)
     /\ expression[c] = "="
  THEN [matched |-> TRUE, var_name |-> Slice(expression, a, b), eq |-> c + 1,
        end |-> SkipSpace(expression, c + 1)]
  ELSE [matched |-> FALSE, var_name |-> <<>>, eq |-> 0, end |-> 0]

LetHead(expression) ==
  Let(SkipSpace(expression, 4), LAMBDA a :
    Let(SkipWord(expression, a), LAMBDA b :
      LetHeadAt(expression, a, b, SkipSpace(expression, b))))

\* whether \s+in\s+(.+)$ matches (re.DOTALL) from position e on
InTail(expression, e) ==
  \E j \in {SkipSpace(expression, e)} :
    /\ e <= Len(expression)
    /\ IsSpace(expression[e])
    /\ At(expression, j, <<"i", "n">>)
    /\ j + 3 <= Len(expression)
    /\ IsSpace(expression[j + 2])

\* The groups of a match of a lazy (.+?) between two separators: cands
\* holds the pairs <<start, end>> at which the pattern matches.  The
\* whitespace before the group takes as much as it can, the group as
\* little: the greatest start, and for it the least end.
LazyStart(cands) == Max({pe[1] : pe \in cands})

LazyEnd(cands, p) == Min({pe[2] : pe \in {x \in cands : x[1] = p}})

\* re.match(r"^let\s+(\w+)\s*=\s*(.+?)\s+in\s+(.+)$", expression, re.DOTALL)
InMatch(expression) ==
  Let(LetHead(expression), LAMBDA head :
    Let({pe \in (head.eq..head.end) \X (1..Len(expression)) :
           pe[1] < pe[2] /\ InTail(expression, pe[2])}, LAMBDA cands :
      IF head.matched /\ cands # {}
      THEN Let(LazyStart(cands), LAMBDA p :
             Let(LazyEnd(cands, p), LAMBDA e :
               [matched |-> TRUE, var_name |-> head.var_name,
                value_expr |-> Slice(expression, p, e),
                rest_expr |-> From(expression, SkipSpace(expression, e) + 2)]))
      ELSE [matched |-> FALSE, var_name |-> <<>>, value_expr |-> <<>>,
            rest_expr |-> <<>>]))

\* new_variables = variables: the same dict under a second name.
AliasVariables(variables) == [dict |-> variables, fresh |-> FALSE]

\* variables.copy(): a new dict with the same entries.  fresh says that
\* what is later stored in the copy does not reach the dict copied.
CopyVariables(variables) == [dict |-> variables, fresh |-> TRUE]

\* what the caller's dict holds after a let: untouched when the let worked
\* on a copy of it
Kept(new_variables, variables, bound) ==
  IF new_variables.fresh THEN variables ELSE bound

\* self.service.variables[var_name] = value
StoredGlobally(r, var_name, val) ==
  [r EXCEPT !.svc = [r.svc EXCEPT !.variables = DictSet(r.svc.variables,
                                                        var_name, val)]]

\* A let that stores its binding in the scope of the service and evaluates
\* the rest in the scope it was handed.
LetBodyStoresGlobally(var_name, rest_expr, r1, expression, context, depth) ==
  IF ~r1.ok THEN r1
  ELSE Let(StoredGlobally(r1, var_name, r1.val), LAMBDA stored :
    IF Strip(rest_expr) # <<>>
    THEN After(stored, Call(Strip(rest_expr), expression, context,
                            stored.variables, stored.svc, depth))
    ELSE stored)

\* The binding of var_name and the evaluation of the rest, after the value
\* expression was evaluated with result r1.
LetBody(var_name, rest_expr, r1, expression, context, depth) ==
  IF ~r1.ok THEN r1
  ELSE Let(CopyVariables(r1.variables), LAMBDA new_variables :
       Let(DictSet(new_variables.dict, var_name, r1.val), LAMBDA bound :
         IF Strip(rest_expr) # <<>>
         THEN Let(After(r1, Call(Strip(rest_expr), expression, context, bound,
                                 r1.svc, depth)), LAMBDA r2 :
                [r2 EXCEPT !.variables = Kept(new_variables, r1.variables,
                                              r2.variables)])
         ELSE [r1 EXCEPT !.variables = Kept(new_variables, r1.variables, bound)]))

evaluate_let_statement(expression, context, variables, svc, depth) ==
  Let(InMatch(expression), LAMBDA in_match :
    IF in_match.matched
    THEN LetBody(in_match.var_name, in_match.rest_expr,
                 Call(Strip(in_match.value_expr), expression, context, variables,
                      svc, depth),
                 expression, context, depth)
    ELSE Let(LetHead(expression), LAMBDA let_match :
      IF ~let_match.matched
      THEN Raise("Invalid let syntax. Use: let variable = expression in expression",
                 <<>>, variables, svc)
      ELSE Let(split_let_expression(From(expression, let_match.end)), LAMBDA split :
             LetBody(let_match.var_name, split[2],
                     Call(Strip(split[1]), expression, context, variables, svc,
                          depth),
                     expression, context, depth))))

VariableEvaluate(expression, context, variables, svc, depth) ==
  IF StartsWith(expression, <<"$">>)
  THEN evaluate_variable_reference(expression, variables, svc)
  ELSE IF StartsWith(expression, KwLet)
  THEN evaluate_let_statement(expression, context, variables, svc, depth)
  ELSE Raise("Invalid variable expression: ", expression, variables, svc)

(***************************************************************************)
(* evaluators/control_flow_evaluator.py                                    *)
(***************************************************************************)
ControlFlowPriority == 90

KwIf == <<"i", "f">>

KwFor == <<"f", "o", "r">>

KwElse == <<"e", "l", "s", "e">>

ControlFlowCanEvaluate(expression) ==
  StartsWith(expression, KwIf) \/ StartsWith(expression, KwFor)

\* keyword\s*\(\s*([^)]+)\s*\) at the start of expression: open and close
\* are the positions of the parentheses
ParenthesizedAt(expression, keyword, open, close) ==
  IF /\ StartsWith(expression, keyword)
     /\ open <= Len(expression)
     /\ expression[open] = "("
     /\ close > open + 1
  THEN [matched |-> TRUE, inner |-> Slice(expression, open + 1, close),
        close |-> close]
  ELSE [matched |-> FALSE, inner |-> <<>>, close |-> 0]

Parenthesized(expression, keyword) ==
  Let(SkipSpace(expression, Len(keyword) + 1), LAMBDA open :
    ParenthesizedAt(expression, keyword, open,
      First({i \in (open + 1)..Len(expression) : expression[i] = ")"}, 0)))

\* the position of the first newline at or after i, Len + 1 without one:
\* where a (.+) that starts at i ends
LineEnd(expression, i) ==
  First({j \in i..Len(expression) : expression[j] = "\n"}, Len(expression) + 1)

\* whether \s+else\s+(.+) matches from position e on
ElseTail(expression, e) ==
  \E j \in {SkipSpace(expression, e)} :
    /\ e <= Len(expression)
    /\ IsSpace(expression[e])
    /\ At(expression, j, KwElse)
    /\ j + 4 <= Len(expression)
    /\ IsSpace(expression[j + 4])
    /\ SkipSpace(expression, j + 4) <= Len(expression)

\* the text from position m to the end of its line
Line(expression, m) == Slice(expression, m, LineEnd(expression, m))

\* re.match(r"if\s*\(\s*([^)]+)\s*\)\s*(.+?)\s+else\s+(.+)", expression)
IfMatch(expression) ==
  Let(Parenthesized(expression, KwIf), LAMBDA head :
    Let({pe \in ((head.close + 1)..SkipSpace(expression, head.close + 1))
                  \X (1..Len(expression)) :
           /\ pe[1] < pe[2]
           /\ ~Contains(Slice(expression, pe[1], pe[2]), <<"\n">>)
           /\ ElseTail(expression, pe[2])}, LAMBDA cands :
      IF head.matched /\ cands # {}
      THEN Let(LazyStart(cands), LAMBDA p :
             Let(LazyEnd(cands, p), LAMBDA e :
               [matched |-> TRUE, condition_expr |-> head.inner,
                then_expr |-> Slice(expression, p, e),
                else_expr |-> Line(expression,
                   SkipSpace(expression, SkipSpace(expression, e) + 4))]))
      ELSE [matched |-> FALSE, condition_expr |-> <<>>, then_expr |-> <<>>,
            else_expr |-> <<>>]))

evaluate_if_expression(expression, context, variables, svc, depth) ==
  Let(IfMatch(expression), LAMBDA match :
    IF ~match.matched
    THEN Raise("Invalid if expression syntax", <<>>, variables, svc)
    ELSE Let(Call(Strip(match.condition_expr), expression, context, variables,
                  svc, depth), LAMBDA condition :
      IF ~condition.ok THEN condition
      ELSE After(condition,
                 Call(Strip(IF Truthy(condition.val) THEN match.then_expr
                            ELSE match.else_expr),
                      expression, context, condition.variables, condition.svc,
                      depth))))

\* re.match(r"for\s*\(\s*([^)]+)\s*\)\s*(.+)", expression)
ForMatch(expression) ==
  Let(Parenthesized(expression, KwFor), LAMBDA head :
    Let(SkipSpace(expression, head.close + 1), LAMBDA m :
      IF head.matched /\ m <= Len(expression)
      THEN [matched |-> TRUE, array_expr |-> head.inner,
            loop_expr |-> Line(expression, m)]
      ELSE [matched |-> FALSE, array_expr |-> <<>>, loop_expr |-> <<>>]))

\* loop_expr, to be evaluated once for each item with the item as context
ForEach(loop_expr, items) ==
  [i \in 1..Len(items) |-> <<loop_expr, items[i]>>]

\* A loop that evaluates its body once for each item, in the context of
\* the loop itself.
evaluate_for_loop_in_outer_context(expression, context, variables, svc, depth) ==
  Let(ForMatch(expression), LAMBDA match :
    IF ~match.matched THEN Raise("Invalid for loop syntax", <<>>, variables, svc)
    ELSE Let(Call(Strip(match.array_expr), expression, context, variables, svc,
                  depth), LAMBDA array_value :
      IF ~array_value.ok THEN array_value
      ELSE IF array_value.val.k # "list"
      THEN After(array_value, Raise("For loop requires an array", <<>>,
                                    array_value.variables, array_value.svc))
      ELSE EvalEach([i \in 1..Len(array_value.val.v) |->
                       <<match.loop_expr, context>>],
                    expression,
                    [array_value EXCEPT !.val = PyList(<<>>)], depth)))

evaluate_for_loop(expression, context, variables, svc, depth) ==
  Let(ForMatch(expression), LAMBDA match :
    IF ~match.matched THEN Raise("Invalid for loop syntax", <<>>, variables, svc)
    ELSE Let(Call(Strip(match.array_expr), expression, context, variables, svc,
                  depth), LAMBDA array_value :
      IF ~array_value.ok THEN array_value
      ELSE IF array_value.val.k # "list"
      THEN After(array_value, Raise("For loop requires an array", <<>>,
                                    array_value.variables, array_value.svc))
      ELSE EvalEach(ForEach(match.loop_expr, array_value.val.v), expression,
                    [array_value EXCEPT !.val = PyList(<<>>)], depth)))

ControlFlowEvaluate(expression, context, variables, svc, depth) ==
  IF StartsWith(expression, KwIf)
  THEN evaluate_if_expression(expression, context, variables, svc, depth)
  ELSE IF StartsWith(expression, KwFor)
  THEN evaluate_for_loop(expression, context, variables, svc, depth)
  ELSE Raise("Invalid control flow expression: ", expression, variables, svc)

(***************************************************************************)
(* evaluators/operator_evaluator.py                                        *)
(***************************************************************************)
OperatorPriority == 80

\* the comparison operators, in the order evaluate tests them
ComparisonOperators ==
  << <<">", "=">>, <<"<", "=">>, <<">">>, <<"<">>, <<"=", "=">>, <<"!", "=">> >>

\* f" {operator} "
Spaced(operator) == <<" ">> \o operator \o <<" ">>

has_top_level_operator(expression, operators) ==
  \E i \in TopLevel(expression) : \E op \in operators : At(expression, i, op)

OperatorCanEvaluate(expression) ==
  IF StartsWith(expression, <<"{">>) \/ StartsWith(expression, <<"[">>) THEN FALSE
  ELSE IF StartsWith(expression, KwIf) \/ StartsWith(expression, KwFor) THEN FALSE
  ELSE IF has_top_level_operator(expression,
            {Spaced(ComparisonOperators[n]) : n \in 1..Len(ComparisonOperators)})
  THEN TRUE
  ELSE has_top_level_operator(expression, {Spaced(<<"+">>)})

\* left_val >= right_val and the like, given how the two values are ordered
\* (2: the comparison raises TypeError)
Ordered(order, operator) ==
  IF order = 2 THEN FALSE
  ELSE CASE operator = <<">", "=">> -> order >= 0
         [] operator = <<"<", "=">> -> order <= 0
         [] operator = <<">">> -> order > 0
         [] operator = <<"<">> -> order < 0

\* A comparison in which None is ordered below every other value.
CompareNoneLowest(left_val, operator, right_val) ==
  IF operator = <<"=", "=">> THEN PyEq(left_val, right_val)
  ELSE IF operator = <<"!", "=">> THEN ~PyEq(left_val, right_val)
  ELSE IF left_val.k = "null" /\ right_val.k = "null" THEN Ordered(0, operator)
  ELSE IF left_val.k = "null" THEN Ordered(-1, operator)
  ELSE IF right_val.k = "null" THEN Ordered(1, operator)
  ELSE Ordered(PyOrder(left_val, right_val), operator)

\* the result of the comparison, once both operands are evaluated
Compare(left_val, operator, right_val) ==
  IF operator = <<"=", "=">> THEN PyEq(left_val, right_val)
  ELSE IF operator = <<"!", "=">> THEN ~PyEq(left_val, right_val)
  ELSE IF left_val.k = "null" \/ right_val.k = "null" THEN FALSE
  ELSE Ordered(PyOrder(left_val, right_val), operator)

evaluate_comparison(expression, context, operator, variables, svc, depth) ==
  Let(Find(expression, Spaced(operator)), LAMBDA at :
    Let(Call(Strip(Slice(expression, 1, at)), expression, context, variables,
             svc, depth), LAMBDA left_val :
      IF ~left_val.ok THEN left_val
      ELSE Let(After(left_val,
                     Call(Strip(From(expression, at + Len(operator) + 2)),
                          expression, context, left_val.variables, left_val.svc,
                          depth)), LAMBDA right_val :
        IF ~right_val.ok THEN right_val
        ELSE [right_val EXCEPT
                !.val = PyBool(Compare(left_val.val, operator, right_val.val))])))

\* An addition of numbers that always gives a float.
PlusAlwaysFloat(a, b, d, is_float) ==
  Let(a[1] * Pow10(d - a[2]) + b[1] * Pow10(d - b[2]), LAMBDA m :
    Let(Normal(m, d), LAMBDA n : PyFloat(n[1], n[2])))

\* a + b for two numbers held as decimals a and b, float when is_float
Plus(a, b, d, is_float) ==
  Let(a[1] * Pow10(d - a[2]) + b[1] * Pow10(d - b[2]), LAMBDA m :
    IF is_float THEN Let(Normal(m, d), LAMBDA n : PyFloat(n[1], n[2]))
    ELSE PyInt(m))

\* rest + val, where val may be None and is then skipped
PlusValue(rest, val) ==
  IF val.k = "null" THEN rest
  ELSE Let(Decimal(rest), LAMBDA a : Let(Decimal(val), LAMBDA b :
         Plus(a, b, IF a[2] > b[2] THEN a[2] ELSE b[2],
              rest.k = "float" \/ val.k = "float")))

\* the sum of a list of numbers and Nones, from the int 0
RECURSIVE Sum(_)
Sum(values) ==
  IF values = <<>> THEN PyInt(0)
  ELSE PlusValue(Sum(SubSeq(values, 1, Len(values) - 1)), values[Len(values)])

\* the concatenation of str(val) of every value, "" for None
RECURSIVE Concat(_)
Concat(values) ==
  IF values = <<>> THEN <<>>
  ELSE (IF values[1].k = "null" THEN <<>> ELSE PyStrOf(values[1], FALSE))
         \o Concat(Tail(values))

\* An addition that concatenates whatever its parts are.
AddConcatenates(values) == PyStr(Concat(values))

\* the result of the addition, once the parts are evaluated
Add(values) ==
  IF \E i \in 1..Len(values) : values[i].k = "str" THEN PyStr(Concat(values))
  ELSE IF \A i \in 1..Len(values) : values[i].k = "null" \/ IsNumber(values[i])
  THEN Sum(values)
  ELSE PyStr(Concat(values))

evaluate_addition(expression, context, variables, svc, depth) ==
  Let(split_addition_parts(expression), LAMBDA parts :
    IF Len(parts) = 1
    THEN Call(Strip(parts[1]), expression, context, variables, svc, depth)
    ELSE Let(EvalEach(InContext(parts, context), expression,
                      Ret(PyList(<<>>), variables, svc), depth), LAMBDA values :
      IF ~values.ok THEN values
      ELSE [values EXCEPT !.val = Add(values.val.v)]))

OperatorEvaluate(expression, context, variables, svc, depth) ==
  Let({n \in 1..Len(ComparisonOperators) :
         Contains(expression, Spaced(ComparisonOperators[n]))}, LAMBDA present :
    IF present # {}
    THEN evaluate_comparison(expression, context,
                             ComparisonOperators[Min(present)], variables, svc,
                             depth)
    ELSE IF Contains(expression, Spaced(<<"+">>))
    THEN evaluate_addition(expression, context, variables, svc, depth)
    ELSE Raise("Invalid operator expression: ", expression, variables, svc))

(***************************************************************************)
(* jslt_service.py: the evaluator list and the dispatch                    *)
(***************************************************************************)
PathPriority == 50

\* An evaluator of the list.  The eight evaluators of the package are told
\* apart by name; "CustomEvaluator" is one the host registers, which claims
\* the expressions that start with its prefix and returns the expression
\* text as a string, or raises.
Evaluator(name, priority) ==
  [name |-> name, priority |-> priority, prefix |-> "", raises |-> FALSE]

CustomEvaluator(priority, prefix, raises) ==
  [name |-> "CustomEvaluator", priority |-> priority, prefix |-> prefix,
   raises |-> raises]

\* evaluator.can_evaluate(expression, context)
CanEvaluate(evaluator, expression) ==
  CASE evaluator.name = "VariableEvaluator" -> VariableCanEvaluate(expression)
    [] evaluator.name = "ControlFlowEvaluator" -> ControlFlowCanEvaluate(expression)
    [] evaluator.name = "OperatorEvaluator" -> OperatorCanEvaluate(expression)
    [] evaluator.name = "ObjectEvaluator" -> ObjectCanEvaluate(expression)
    [] evaluator.name = "ArrayEvaluator" -> ArrayCanEvaluate(expression)
    [] evaluator.name = "FunctionEvaluator" -> FunctionCanEvaluate(expression)
    [] evaluator.name = "PathEvaluator" -> PathCanEvaluate(expression)
    [] evaluator.name = "LiteralEvaluator" -> LiteralCanEvaluate(expression)
    [] OTHER -> StartsWith(expression, <<evaluator.prefix>>)

\* the record of a call that touches neither `variables` nor the service,
\* and returned or raised as out tells
Outcome(out, variables, svc) ==
  [Ret(out.val, variables, svc) EXCEPT !.ok = out.ok, !.err = out.err]

\* evaluator.evaluate(expression, context, variables)
Evaluate(evaluator, expression, context, variables, svc, depth) ==
  CASE evaluator.name = "VariableEvaluator" ->
         VariableEvaluate(expression, context, variables, svc, depth)
    [] evaluator.name = "ControlFlowEvaluator" ->
         ControlFlowEvaluate(expression, context, variables, svc, depth)
    [] evaluator.name = "OperatorEvaluator" ->
         OperatorEvaluate(expression, context, variables, svc, depth)
    [] evaluator.name = "ObjectEvaluator" ->
         ObjectEvaluate(expression, context, variables, svc, depth)
    [] evaluator.name = "ArrayEvaluator" ->
         ArrayEvaluate(expression, context, variables, svc, depth)
    [] evaluator.name = "FunctionEvaluator" ->
         FunctionEvaluate(expression, context, variables, svc, depth)
    [] evaluator.name = "PathEvaluator" ->
         Outcome(PathEvaluate(expression, context), variables, svc)
    [] evaluator.name = "LiteralEvaluator" ->
         LiteralEvaluate(expression, variables, svc)
    [] OTHER ->
         IF evaluator.raises
         THEN Raise("custom evaluator failed: ", expression, variables, svc)
         ELSE Ret(PyStr(expression), variables, svc)

\* list.sort(key=lambda e: e.priority, reverse=True): stable, so evaluators
\* of equal priority keep their order.  SortInsert puts one evaluator into
\* a sorted list, behind those of at least its priority.
InsertAfter(sorted, n, evaluator) ==
  SubSeq(sorted, 1, n) \o <<evaluator>> \o SubSeq(sorted, n + 1, Len(sorted))

SortInsert(sorted, evaluator) ==
  InsertAfter(sorted,
    Last({i \in 1..Len(sorted) : sorted[i].priority >= evaluator.priority}, 0),
    evaluator)

RECURSIVE SortByPriority(_)
SortByPriority(evaluators) ==
  IF evaluators = <<>> THEN <<>>
  ELSE SortInsert(SortByPriority(SubSeq(evaluators, 1, Len(evaluators) - 1)),
                  evaluators[Len(evaluators)])

\* self.evaluators after _initialize_evaluators
initialize_evaluators ==
  SortByPriority(<<Evaluator("VariableEvaluator", VariablePriority),
                   Evaluator("ControlFlowEvaluator", ControlFlowPriority),
                   Evaluator("OperatorEvaluator", OperatorPriority),
                   Evaluator("ObjectEvaluator", ObjectPriority),
                   Evaluator("ArrayEvaluator", ArrayPriority),
                   Evaluator("FunctionEvaluator", FunctionPriority),
                   Evaluator("PathEvaluator", PathPriority),
                   Evaluator("LiteralEvaluator", LiteralPriority)>>)

\* self.evaluators after an append that is not followed by the sort
register_evaluator_unsorted(evaluators, evaluator) ==
  Append(evaluators, evaluator)

\* self.evaluators after register_evaluator(evaluator)
register_evaluator(evaluators, evaluator) ==
  SortByPriority(Append(evaluators, evaluator))

\* self.functions after _register_builtin_functions: each name with the
\* function's position in BUILTIN_FUNCTIONS
register_builtin_functions ==
  [i \in 1..Len(BUILTIN_FUNCTIONS) |-> <<BUILTIN_FUNCTIONS[i], i>>]

\* self.functions after register_function(func), func.name being name
register_function(functions, name, func) == DictSet(functions, name, func)

\* The loop over self.evaluators from the i-th on.
RECURSIVE TryEvaluators(_, _, _, _, _, _, _)
TryEvaluators(i, tried, expression, context, variables, svc, depth) ==
  IF i > Len(svc.evaluators)
  THEN [Raise("Invalid expression: ", expression, variables, svc)
          EXCEPT !.tried = tried]
  ELSE IF CanEvaluate(svc.evaluators[i], expression)
  THEN [Evaluate(svc.evaluators[i], expression, context, variables, svc, depth)
          EXCEPT !.tried = Append(tried, svc.evaluators[i]),
                 !.by = svc.evaluators[i].name]
  ELSE TryEvaluators(i + 1, Append(tried, svc.evaluators[i]), expression,
                     context, variables, svc, depth)

\* re.match(r"^let\s+(\w+)\s*=\s*(.+)$", let_stmt), on a stripped line
LineLetMatch(let_stmt) ==
  Let(LetHead(let_stmt), LAMBDA head :
    IF head.matched /\ head.end <= Len(let_stmt)
    THEN [matched |-> TRUE, var_name |-> head.var_name,
          value_expr |-> From(let_stmt, head.end)]
    ELSE [matched |-> FALSE, var_name |-> <<>>, value_expr |-> <<>>])

\* The loop over let_statements run from the last statement to the first.
RECURSIVE LetStatementsBackwards(_, _, _, _, _)
LetStatementsBackwards(let_statements, expression, context, acc, depth) ==
  IF let_statements = <<>> THEN acc
  ELSE Let(LineLetMatch(let_statements[Len(let_statements)]), LAMBDA let_match :
    Let(SubSeq(let_statements, 1, Len(let_statements) - 1), LAMBDA before :
      IF ~let_match.matched
      THEN LetStatementsBackwards(before, expression, context, acc, depth)
      ELSE Let(After(acc, Call(Strip(let_match.value_expr), expression, context,
                               acc.variables, acc.svc, depth)), LAMBDA value :
        IF ~value.ok THEN value
        ELSE LetStatementsBackwards(before, expression, context,
               [value EXCEPT !.variables = DictSet(value.variables,
                                                   let_match.var_name, value.val)],
               depth))))

\* The loop over let_statements; acc.variables is current_variables.
RECURSIVE LetStatements(_, _, _, _, _)
LetStatements(let_statements, expression, context, acc, depth) ==
  IF let_statements = <<>> THEN acc
  ELSE Let(LineLetMatch(let_statements[1]), LAMBDA let_match :
    IF ~let_match.matched
    THEN LetStatements(Tail(let_statements), expression, context, acc, depth)
    ELSE Let(After(acc, Call(Strip(let_match.value_expr), expression, context,
                             acc.variables, acc.svc, depth)), LAMBDA value :
      IF ~value.ok THEN value
      ELSE LetStatements(Tail(let_statements), expression, context,
             [value EXCEPT !.variables = DictSet(value.variables,
                                                 let_match.var_name, value.val)],
             depth)))

IsLetLine(line) == StartsWith(line, KwLet)

IsObjectLine(line) == ~StartsWith(line, KwLet) /\ line # <<>>

\* line.strip() of every line
StrippedLines(lines) == [i \in 1..Len(lines) |-> Strip(lines[i])]

\* The evaluation of remaining_expr, after the let statements were
\* evaluated with result bound.
Remaining(remaining_expr, bound, expression, context, depth) ==
  IF ~bound.ok THEN bound
  ELSE IF remaining_expr # <<>>
  THEN After(bound, Call(remaining_expr, expression, context, bound.variables,
                         bound.svc, depth))
  ELSE [bound EXCEPT !.val = PyNone]

\* the record of a call that worked on current_variables and ended as
\* result tells: what the caller's dict holds after it
Scoped(result, current_variables, variables) ==
  [result EXCEPT !.variables = Kept(current_variables, variables,
                                    result.variables)]

evaluate_multiline_expression(expression, context, variables, svc, depth) ==
  Let(StrippedLines(SplitLines(expression)), LAMBDA lines :
    Let(CopyVariables(variables), LAMBDA current_variables :
      Scoped(Remaining(JoinLines(SelectSeq(lines, IsObjectLine)),
                       LetStatements(SelectSeq(lines, IsLetLine), expression,
                                     context,
                                     Ret(PyNone, current_variables.dict, svc),
                                     depth),
                       expression, context, depth),
             current_variables, variables)))

\* _evaluate_expression(expression, context, variables), depth calls deep
evaluate_expression(expression, context, variables, svc, depth) ==
  Let(Strip(expression), LAMBDA stripped :
    IF depth > RecursionLimit
    THEN Raise("maximum recursion depth exceeded", <<>>, variables, svc)
    ELSE IF stripped = <<>> THEN EmptyExpression(variables, svc)
    ELSE IF Contains(stripped, KwLet) /\ Contains(stripped, <<"\n">>)
    THEN [evaluate_multiline_expression(stripped, context, variables, svc, depth)
            EXCEPT !.by = "multiline"]
    ELSE TryEvaluators(1, <<>>, stripped, context, variables, svc, depth))

(***************************************************************************)
(* services/jslt_service.py: the monolithic JSLTService, the class that    *)
(* api/transform.py instantiates.  Its _evaluate_expression stores nothing *)
(* in the dict it is handed or in self.variables, which is {} during every *)
(* call, and calls itself on strictly shorter texts only: a call is a      *)
(* function of the expression, the context and the variables.  _evaluate_  *)
(* path, _evaluate_comparison and the five builtin functions have the text *)
(* of PathEvaluator.evaluate, OperatorEvaluator._evaluate_comparison and   *)
(* the classes of builtin_functions.py.                                    *)
(***************************************************************************)
\* The positions at which a splitter of the class tests for a comma: outside
\* every string literal, not at one of its brackets, and with depth == 0.
LegacyTopLevel(s, opening, closing) ==
  Let(Outside(s, StringSpans(s, 1)), LAMBDA outside :
    {i \in outside :
       /\ s[i] \notin opening \cup closing
       /\ Cardinality({j \in outside : j < i /\ s[j] \in opening})
            = Cardinality({j \in outside : j < i /\ s[j] \in closing})})

\* The loop of a splitter: every comma at depth 0 closes a part, and what
\* is left at the end is a part when it is not blank.
LegacySplit(content, opening, closing) ==
  Let(SplitScan(content,
                {i \in LegacyTopLevel(content, opening, closing) :
                   content[i] = ","}, 1, 1), LAMBDA scan :
    IF scan[Len(scan)] # <<>> THEN scan ELSE SubSeq(scan, 1, Len(scan) - 1))

legacy_split_object_pairs(content) == LegacySplit(content, {"{", "["}, {"}", "]"})

legacy_split_array_elements(content) == LegacySplit(content, {"{", "["}, {"}", "]"})

legacy_split_function_args(args_str) ==
  LegacySplit(args_str, {"{", "[", "("}, {"}", "]", ")"})

\* re.match(r'^let\s+(\w+)\s*=\s*(.+?)(?:\s+(.*)|$)', expression, re.DOTALL)
\* on a stripped expression: the value is the text up to the first
\* whitespace after it began, and the rest what follows that whitespace
LegacyLetMatch(expression) ==
  Let(LetHead(expression), LAMBDA head :
    IF head.matched /\ head.end <= Len(expression)
    THEN Let(First({j \in (head.end + 1)..Len(expression) :
                      IsSpace(expression[j])}, Len(expression) + 1), LAMBDA e :
           [matched |-> TRUE, var_name |-> head.var_name,
            value_expr |-> Slice(expression, head.end, e),
            rest_expr |-> From(expression, SkipSpace(expression, e))])
    ELSE [matched |-> FALSE, var_name |-> <<>>, value_expr |-> <<>>,
          rest_expr |-> <<>>])

\* self.variables of the monolithic service during a call
LegacyServiceVariables == EmptyDict

\* return self._evaluate_for_loop(expression, context, variables): the
\* method is defined with (self, expression, context), so the call raises
\* TypeError
LegacyForLoopCall ==
  Thrown("JSLTService._evaluate_for_loop() takes 3 positional arguments but 4 were given",
         <<>>)

\* return self._evaluate_if_expression(expression, context, variables):
\* the method is defined with (self, expression, context) as well
LegacyIfExpressionCall ==
  Thrown("JSLTService._evaluate_if_expression() takes 3 positional arguments but 4 were given",
         <<>>)

\* the operators in the order in which _evaluate_expression looks for them
LegacyComparisonOperators ==
  << <<">", "=">>, <<"<", "=">>, <<">">>, <<"<">>, <<"=", "=">>, <<"!", "=">> >>

\* the first of them that occurs in the expression with a space on each
\* side, 0 when none does
LegacyOperatorIn(expression) ==
  First({i \in 1..Len(LegacyComparisonOperators) :
           Contains(expression, Spaced(LegacyComparisonOperators[i]))}, 0)

RECURSIVE legacy_evaluate_expression(_, _, _)

\* [_evaluate_expression(elem.strip(), context, variables) for elem in
\* elements], up to the first that raises; the values come back as a list
RECURSIVE LegacyEvalEach(_, _, _, _)
LegacyEvalEach(elements, context, variables, acc) ==
  IF elements = <<>> THEN Returned(PyList(acc))
  ELSE Let(legacy_evaluate_expression(Strip(elements[1]), context, variables),
           LAMBDA r :
             IF ~r.ok THEN r
             ELSE LegacyEvalEach(Tail(elements), context, variables,
                                 Append(acc, r.val)))

legacy_evaluate_let_statement(expression, context, variables) ==
  Let(LegacyLetMatch(expression), LAMBDA let_match :
    IF ~let_match.matched
    THEN Thrown("Invalid let syntax. Use: let variable = expression", <<>>)
    ELSE Let(legacy_evaluate_expression(Strip(let_match.value_expr), context,
                                        variables), LAMBDA value :
      IF ~value.ok THEN value
      ELSE IF Strip(let_match.rest_expr) # <<>>
      THEN legacy_evaluate_expression(Strip(let_match.rest_expr), context,
                                      DictSet(variables, let_match.var_name,
                                              value.val))
      ELSE value))

\* the variable reference: re.match(r'^\$(\w+)', expression), then the
\* lookup in variables and in self.variables
legacy_evaluate_variable(expression, variables) ==
  Let(SkipWord(expression, 2), LAMBDA e :
    IF e = 2 THEN Thrown("Invalid variable reference: ", expression)
    ELSE IF DictHas(variables, Slice(expression, 2, e))
    THEN Returned(DictAt(variables, Slice(expression, 2, e)))
    ELSE IF DictHas(LegacyServiceVariables, Slice(expression, 2, e))
    THEN Returned(DictAt(LegacyServiceVariables, Slice(expression, 2, e)))
    ELSE Thrown("Undefined variable: $", Slice(expression, 2, e)))

\* the loop over the pairs of _evaluate_object; acc is the result dict
RECURSIVE LegacyObjectPairs(_, _, _, _)
LegacyObjectPairs(pairs, context, variables, acc) ==
  IF pairs = <<>> THEN Returned(PyDict(acc))
  ELSE Let(Find(pairs[1], <<":">>), LAMBDA colon :
    IF colon = 0 THEN Thrown("Invalid object pair: ", pairs[1])
    ELSE Let(legacy_evaluate_expression(Strip(From(pairs[1], colon + 1)),
                                        context, variables), LAMBDA r :
      IF ~r.ok THEN r
      ELSE LegacyObjectPairs(Tail(pairs), context, variables,
                             DictSet(acc, ObjectKey(Slice(pairs[1], 1, colon)),
                                     r.val))))

legacy_evaluate_object(expression, context, variables) ==
  Let(Strip(SubSeq(expression, 2, Len(expression) - 1)), LAMBDA content :
    IF content = <<>> THEN Returned(PyDict(EmptyDict))
    ELSE LegacyObjectPairs(legacy_split_object_pairs(content), context,
                           variables, EmptyDict))

legacy_evaluate_array(expression, context, variables) ==
  Let(Strip(SubSeq(expression, 2, Len(expression) - 1)), LAMBDA content :
    IF content = <<>> THEN Returned(PyList(<<>>))
    ELSE LegacyEvalEach(legacy_split_array_elements(content), context,
                        variables, <<>>))

\* self.functions of the monolithic service: the five builtins, under the
\* names and in the order of BUILTIN_FUNCTIONS
legacy_functions ==
  [i \in 1..Len(BUILTIN_FUNCTIONS) |-> <<BUILTIN_FUNCTIONS[i], i>>]

legacy_evaluate_function(func_name, args_str, context, variables) ==
  IF ~DictHas(legacy_functions, func_name)
  THEN Thrown("Unknown function: ", func_name)
  ELSE Let(IF Strip(args_str) = <<>> THEN Returned(PyList(<<>>))
           ELSE LegacyEvalEach(legacy_split_function_args(args_str), context,
                               variables, <<>>), LAMBDA args :
         IF ~args.ok THEN args
         ELSE Execute(DictAt(legacy_functions, func_name), args.val.v))

legacy_evaluate_comparison(expression, context, operator, variables) ==
  Let(Find(expression, Spaced(operator)), LAMBDA at :
    Let(legacy_evaluate_expression(Strip(Slice(expression, 1, at)), context,
                                   variables), LAMBDA left_val :
      IF ~left_val.ok THEN left_val
      ELSE Let(legacy_evaluate_expression(
                 Strip(From(expression, at + Len(operator) + 2)), context,
                 variables), LAMBDA right_val :
        IF ~right_val.ok THEN right_val
        ELSE Returned(PyBool(Compare(left_val.val, operator, right_val.val))))))

\* _evaluate_expression(expression, context, variables) of the monolithic
\* service
legacy_evaluate_expression(expression, context, variables) ==
  Let(Strip(expression), LAMBDA stripped :
    IF stripped = <<>> THEN Returned(PyNone)
    ELSE IF StartsWith(stripped, KwLet)
    THEN legacy_evaluate_let_statement(stripped, context, variables)
    ELSE IF StartsWith(stripped, <<"$">>)
    THEN legacy_evaluate_variable(stripped, variables)
    ELSE IF StartsWith(stripped, <<"{">>) /\ EndsWith(stripped, <<"}">>)
    THEN legacy_evaluate_object(stripped, context, variables)
    ELSE IF StartsWith(stripped, <<"[">>) /\ EndsWith(stripped, <<"]">>)
    THEN legacy_evaluate_array(stripped, context, variables)
    ELSE IF is_string_literal(stripped)
    THEN Returned(PyStr(SubSeq(stripped, 2, Len(stripped) - 1)))
    ELSE IF is_number_literal(stripped)
    THEN Returned(IF Contains(stripped, <<".">>) THEN ParseFloat(stripped)
                  ELSE ParseInt(stripped))
    ELSE IF stripped = KwTrue THEN Returned(PyBool(TRUE))
    ELSE IF stripped = KwFalse THEN Returned(PyBool(FALSE))
    ELSE IF stripped = KwNull THEN Returned(PyNone)
    ELSE IF StartsWith(stripped, <<"f", "o", "r">>)
    THEN LegacyForLoopCall
    ELSE IF StartsWith(stripped, <<"i", "f">>)
    THEN LegacyIfExpressionCall
    ELSE IF FuncMatch(stripped).matched
    THEN legacy_evaluate_function(FuncMatch(stripped).func_name,
                                  FuncMatch(stripped).args_str, context,
                                  variables)
    ELSE IF LegacyOperatorIn(stripped) # 0
    THEN legacy_evaluate_comparison(
           stripped, context,
           LegacyComparisonOperators[LegacyOperatorIn(stripped)], variables)
    ELSE IF StartsWith(stripped, <<".">>) THEN PathEvaluate(stripped, context)
    ELSE Thrown("Invalid expression: ", stripped))

(***************************************************************************)
(* The calls a host makes: the input documents and the program texts that  *)
(* transform(input_json, jslt_expression) and validate_jslt are called on. *)
(***************************************************************************)
InputEmpty == PyDict(<<>>)

\* {"xs": [1, 2, 3]}
InputXs == PyDict(<<<<<<"x", "s">>, PyList(<<PyInt(1), PyInt(2), PyInt(3)>>)>>>>)

\* {"x": null, "n": 0, "f": 1.5, "s": "a", "b": true, "l": [1], "d": {"a": 1}}
InputKinds ==
  PyDict(<< <<<<"x">>, PyNone>>, <<<<"n">>, PyInt(0)>>, <<<<"f">>, PyFloat(15, 1)>>,
            <<<<"s">>, PyStr(<<"a">>)>>, <<<<"b">>, PyBool(TRUE)>>,
            <<<<"l">>, PyList(<<PyInt(1)>>)>>,
            <<<<"d">>, PyDict(<< <<<<"a">>, PyInt(1)>> >>)>> >>)

Inputs == {InputEmpty, InputXs}

\* test_input of validate_jslt
test_input ==
  PyDict(<<<<<<"t", "e", "s", "t">>, PyStr(<<"v", "a", "l", "u", "e">>)>>,
          <<<<"a", "r", "r", "a", "y">>, PyList(<<PyInt(1), PyInt(2), PyInt(3)>>)>>,
          <<<<"n", "a", "m", "e">>, PyStr(<<"J", "o", "h", "n", " ", "D", "o", "e">>)>>,
          <<<<"a", "g", "e">>, PyInt(25)>>,
          <<<<"c", "i", "t", "y">>, PyStr(<<"N", "e", "w", " ", "Y", "o", "r", "k">>)>>,
          <<<<"s", "k", "i", "l", "l", "s">>, PyList(<<PyStr(<<"J", "a", "v", "a", "S", "c", "r", "i", "p", "t">>), PyStr(<<"P", "y", "t", "h", "o", "n">>), PyStr(<<"J", "a", "v", "a">>)>>)>>>>)

\* "<s>"
Quoted(s) == <<"\"">> \o s \o <<"\"">>

\* $<var_name>
VarRef(var_name) == <<"$">> \o var_name

\* <left> <operator> <right>
Binary(left, operator, right) == left \o Spaced(operator) \o right

\* let <var_name> = <value_expr> in <rest_expr>
LetIn(var_name, value_expr, rest_expr) ==
  KwLet \o var_name \o <<" ", "=", " ">> \o value_expr \o <<" ", "i", "n", " ">>
    \o rest_expr

\* if (<cond>) <then_expr> else <else_expr>
IfElse(cond, then_expr, else_expr) ==
  KwIf \o <<" ", "(">> \o cond \o <<")", " ">> \o then_expr \o <<" ">> \o KwElse
    \o <<" ">> \o else_expr

\* for (<array_expr>) <body>
ForIn(array_expr, body) == KwFor \o <<" ", "(">> \o array_expr \o <<")", " ">> \o body

\* let greeting = "hi" in { "msg": $greeting + ", world" }
GreetingProgram ==
  <<"l", "e", "t", " ", "g", "r", "e", "e", "t", "i", "n", "g", " ", "=",
    " ", "\"", "h", "i", "\"", " ", "i", "n", " ", "{", " ", "\"", "m", "s",
    "g", "\"", ":", " ", "$", "g", "r", "e", "e", "t", "i", "n", "g", " ",
    "+", " ", "\"", ",", " ", "w", "o", "r", "l", "d", "\"", " ", "}">>

\* let x = 1 in let x = 2 in $x
ShadowNested ==
  <<"l", "e", "t", " ", "x", " ", "=", " ", "1", " ", "i", "n", " ", "l",
    "e", "t", " ", "x", " ", "=", " ", "2", " ", "i", "n", " ", "$", "x">>

\* let x = 1 in { "a": $x, "b": let x = 2 in $x, "c": $x }
ShadowSibling ==
  <<"l", "e", "t", " ", "x", " ", "=", " ", "1", " ", "i", "n", " ", "{",
    " ", "\"", "a", "\"", ":", " ", "$", "x", ",", " ", "\"", "b", "\"", ":",
    " ", "l", "e", "t", " ", "x", " ", "=", " ", "2", " ", "i", "n", " ",
    "$", "x", ",", " ", "\"", "c", "\"", ":", " ", "$", "x", " ", "}">>

\* let x = 1\n{ "a": $x }
MultilineLet ==
  <<"l", "e", "t", " ", "x", " ", "=", " ", "1", "\n", "{", " ", "\"", "a",
    "\"", ":", " ", "$", "x", " ", "}">>

\* {\n"a": let x = 1 in $x\n}
MultilineObject ==
  <<"{", "\n", "\"", "a", "\"", ":", " ", "l", "e", "t", " ", "x", " ", "=",
    " ", "1", " ", "i", "n", " ", "$", "x", "\n", "}">>

\* "let \nfoo"
MultilineString ==
  <<"\"", "l", "e", "t", " ", "\n", "f", "o", "o", "\"">>

\* "let x\ny"
MultilineWord ==
  <<"\"", "l", "e", "t", " ", "x", "\n", "y", "\"">>

\* { "count": size(.xs), "doubled": for (.xs) (. + .) }
SizeDoubledParenthesized ==
  <<"{", " ", "\"", "c", "o", "u", "n", "t", "\"", ":", " ", "s", "i", "z",
    "e", "(", ".", "x", "s", ")", ",", " ", "\"", "d", "o", "u", "b", "l",
    "e", "d", "\"", ":", " ", "f", "o", "r", " ", "(", ".", "x", "s", ")",
    " ", "(", ".", " ", "+", " ", ".", ")", " ", "}">>

\* { "count": size(.xs), "doubled": for (.xs) . + . }
SizeDoubled ==
  <<"{", " ", "\"", "c", "o", "u", "n", "t", "\"", ":", " ", "s", "i", "z",
    "e", "(", ".", "x", "s", ")", ",", " ", "\"", "d", "o", "u", "b", "l",
    "e", "d", "\"", ":", " ", "f", "o", "r", " ", "(", ".", "x", "s", ")",
    " ", ".", " ", "+", " ", ".", " ", "}">>

\* let x = 1 in $y
BindThenFail ==
  <<"l", "e", "t", " ", "x", " ", "=", " ", "1", " ", "i", "n", " ", "$",
    "y">>

\* let x = 1
BareLet ==
  <<"l", "e", "t", " ", "x", " ", "=", " ", "1">>

\* $x
UnboundX ==
  <<"$", "x">>

\* foo(.x)
UnknownCall ==
  <<"f", "o", "o", "(", ".", "x", ")">>

\* .a.b
PathAB ==
  <<".", "a", ".", "b">>

\* the empty program
EmptyProgram == <<>>

\* { "a": }
EmptyPairValue ==
  <<"{", " ", "\"", "a", "\"", ":", " ", "}">>

\* [1, , 2]
EmptyElement ==
  <<"[", "1", ",", " ", ",", " ", "2", "]">>

\* "a" + "b > c"
ConcatComparisonText ==
  <<"\"", "a", "\"", " ", "+", " ", "\"", "b", " ", ">", " ", "c", "\"">>

\* "x > y" == "x > y"
EqualComparisonTexts ==
  <<"\"", "x", " ", ">", " ", "y", "\"", " ", "=", "=", " ", "\"", "x", " ",
    ">", " ", "y", "\"">>

\* let x = "a for b"
LetStringWithFor ==
  <<"l", "e", "t", " ", "x", " ", "=", " ", "\"", "a", " ", "f", "o", "r",
    " ", "b", "\"">>

\* let x = [1, if (.a) 2 else 3]
LetArrayWithIf ==
  <<"l", "e", "t", " ", "x", " ", "=", " ", "[", "1", ",", " ", "i", "f",
    " ", "(", ".", "a", ")", " ", "2", " ", "e", "l", "s", "e", " ", "3",
    "]">>

\* let x = 1\nlet y = $x\n[$x, $y]
LetChain ==
  <<"l", "e", "t", " ", "x", " ", "=", " ", "1", "\n", "l", "e", "t", " ",
    "y", " ", "=", " ", "$", "x", "\n", "[", "$", "x", ",", " ", "$", "y",
    "]">>

\* let y = $x\nlet x = 1\n$y
LetBackwards ==
  <<"l", "e", "t", " ", "y", " ", "=", " ", "$", "x", "\n", "l", "e", "t",
    " ", "x", " ", "=", " ", "1", "\n", "$", "y">>

\* let x = 1\nlet x = 2\n$x
LetTwice ==
  <<"l", "e", "t", " ", "x", " ", "=", " ", "1", "\n", "l", "e", "t", " ",
    "x", " ", "=", " ", "2", "\n", "$", "x">>

\* let x = 1\n{\n"a": $x\n}
LetBodyLines ==
  <<"l", "e", "t", " ", "x", " ", "=", " ", "1", "\n", "{", "\n", "\"", "a",
    "\"", ":", " ", "$", "x", "\n", "}">>

\* foo($u)
UnknownCallUnbound ==
  <<"f", "o", "o", "(", "$", "u", ")">>

\* size($u)
SizeUnbound ==
  <<"s", "i", "z", "e", "(", "$", "u", ")">>

\* "a" + true
ConcatTrue ==
  <<"\"", "a", "\"", " ", "+", " ", "t", "r", "u", "e">>

\* "a" + null
ConcatNull ==
  <<"\"", "a", "\"", " ", "+", " ", "n", "u", "l", "l">>

\* "n=" + 3
ConcatInt ==
  <<"\"", "n", "=", "\"", " ", "+", " ", "3">>

\* { "a": 1, "b": 2, "a": 3 }
DuplicateKey ==
  <<"{", " ", "\"", "a", "\"", ":", " ", "1", ",", " ", "\"", "b", "\"", ":",
    " ", "2", ",", " ", "\"", "a", "\"", ":", " ", "3", " ", "}">>

\* { "a": 1, "b" }
PairWithoutColon ==
  <<"{", " ", "\"", "a", "\"", ":", " ", "1", ",", " ", "\"", "b", "\"", " ",
    "}">>

\* { "a": $u, "b" }
UnboundBeforeBadPair ==
  <<"{", " ", "\"", "a", "\"", ":", " ", "$", "u", ",", " ", "\"", "b", "\"",
    " ", "}">>

\* { "b", "a": $u }
BadPairBeforeUnbound ==
  <<"{", " ", "\"", "b", "\"", ",", " ", "\"", "a", "\"", ":", " ", "$", "u",
    " ", "}">>

\* let x = "a in b" in $x
LetInString ==
  <<"l", "e", "t", " ", "x", " ", "=", " ", "\"", "a", " ", "i", "n", " ",
    "b", "\"", " ", "i", "n", " ", "$", "x">>

\* foo
BareWord ==
  <<"f", "o", "o">>

\*   
Blank ==
  <<" ", " ">>

\* the texts the operator claims are about: literal operands, and the
\* operators + and ==
LeftOperands == {<<"1">>, Quoted(<<"h", "i">>)}

RightOperands == {<<"2">>, Quoted(<<",", " ", "w", "o", "r", "l", "d">>)}

VariableOperators == {<<"+">>, <<"=", "=">>}

\* let x = <v> in $x <op> <e>
VariableOperatorPrograms ==
  {LetIn(<<"x">>, v, Binary(VarRef(<<"x">>), op, e)) :
     v \in LeftOperands, op \in VariableOperators, e \in RightOperands}

\* condition texts with the value each one evaluates to on InputXs
Conditions ==
  {<<<<"n", "u", "l", "l">>, PyNone>>,
   <<<<"f", "a", "l", "s", "e">>, PyBool(FALSE)>>,
   <<<<"t", "r", "u", "e">>, PyBool(TRUE)>>,
   <<<<"0">>, PyInt(0)>>,
   <<<<"1">>, PyInt(1)>>,
   <<<<"0", ".", "0">>, PyFloat(0, 0)>>,
   <<<<"\"", "\"">>, PyStr(<<>>)>>,
   <<<<"\"", "a", "\"">>, PyStr(<<"a">>)>>,
   <<<<"[", "]">>, PyList(<<>>)>>,
   <<<<"[", "0", "]">>, PyList(<<PyInt(0)>>)>>,
   <<<<"{", "}">>, PyDict(<<>>)>>,
   <<<<".", "x", "s">>, PyList(<<PyInt(1), PyInt(2), PyInt(3)>>)>>,
   <<<<".", "m", "i", "s", "s", "i", "n", "g">>, PyNone>>}

ThenText == Quoted(<<"t">>)

ElseText == Quoted(<<"e">>)

\* if (<cond>) "t" else "e"
IfPrograms == {IfElse(c[1], ThenText, ElseText) : c \in Conditions}

ArrayTexts == {<<".", "x", "s">>, <<"[", "3", ",", " ", "4", "]">>}

\* loop bodies: the element, the element added to itself, and one that
\* reads the binding y of the loop's scope and rebinds it to the element
BodyTexts ==
  {<<".">>, Binary(<<".">>, <<"+">>, <<".">>),
   <<"[">> \o VarRef(<<"y">>) \o <<",", " ">>
     \o LetIn(<<"y">>, <<".">>, VarRef(<<"y">>)) \o <<"]">>}

\* for (<a>) <b>, alone and in the scope of let y = 0
ForPrograms ==
  {ForIn(a, b) : a \in ArrayTexts, b \in BodyTexts}
    \cup {LetIn(<<"y">>, <<"0">>, ForIn(a, b)) : a \in ArrayTexts, b \in BodyTexts}

\* operand texts with the value each one evaluates to on InputKinds, none
\* of them None: a value of every kind by path, and the scalar literals
KindOperands ==
  {<<<<".", "n">>, PyInt(0)>>, <<<<".", "f">>, PyFloat(15, 1)>>,
   <<<<".", "s">>, PyStr(<<"a">>)>>, <<<<".", "b">>, PyBool(TRUE)>>,
   <<<<".", "l">>, PyList(<<PyInt(1)>>)>>,
   <<<<".", "d">>, PyDict(<< <<<<"a">>, PyInt(1)>> >>)>>,
   <<<<"0">>, PyInt(0)>>, <<<<"2">>, PyInt(2)>>,
   <<<<"1", ".", "5">>, PyFloat(15, 1)>>,
   <<Quoted(<<"a">>), PyStr(<<"a">>)>>, <<KwTrue, PyBool(TRUE)>>}

\* the texts that evaluate to None on InputKinds
NullTexts == {KwNull, <<".", "x">>}

OrderingOperators == {<<"<">>, <<"<", "=">>, <<">">>, <<">", "=">>}

\* null <op> <v> and <v> <op> null
NullComparisonPrograms ==
  UNION {{Binary(n, op, v[1]), Binary(v[1], op, n)} :
           n \in NullTexts, op \in OrderingOperators, v \in KindOperands}

Programs ==
  {GreetingProgram, ShadowNested, ShadowSibling, MultilineLet,
   MultilineObject, MultilineString, MultilineWord, SizeDoubledParenthesized,
   SizeDoubled, BindThenFail, BareLet, UnboundX,
   UnknownCall, BareWord, Blank, PathAB, EmptyProgram, EmptyPairValue,
   EmptyElement, ConcatComparisonText, EqualComparisonTexts,
   LetStringWithFor, LetArrayWithIf}
    \cup VariableOperatorPrograms \cup IfPrograms \cup ForPrograms

\* the operands that are numbers or strings
AdditionParts == {v \in KindOperands : v[2].k \in {"int", "float", "str"}}

\* <a> + <b>
Chain2(a, b) == Binary(a, <<"+">>, b)

\* <a> + <b> + <c>
Chain3(a, b, c) == Binary(Binary(a, <<"+">>, b), <<"+">>, c)

\* chains of two parts, and of three parts that start with the integer 2
AdditionPrograms ==
  {Chain2(a[1], b[1]) : a \in AdditionParts, b \in AdditionParts}
    \cup {Chain3(<<"2">>, a[1], b[1]) : a \in AdditionParts, b \in AdditionParts}

\* the programs that are run on InputKinds
KindPrograms == NullComparisonPrograms \cup AdditionPrograms

\* the keys of the object inputs that are copied: two words, and one that
\* holds a dot
CopiedKeys == {<<"a">>, <<"b", "_", "1">>, <<"a", ".", "b">>}

CopiedValues == {PyInt(1), PyNone, PyList(<<PyStr(<<"x">>)>>)}

\* how many keys such an input has at most
MaxKeys == 2

\* the object inputs with n keys, all different
RECURSIVE ObjectsOf(_)
ObjectsOf(n) ==
  IF n = 0 THEN {<<>>}
  ELSE {Append(d, <<key, val>>) :
          d \in ObjectsOf(n - 1),
          key \in CopiedKeys, val \in CopiedValues}

RoundTripInputs ==
  {PyDict(d) : d \in {e \in UNION {ObjectsOf(n) : n \in 0..MaxKeys} :
                        \A i \in 1..Len(e), j \in 1..Len(e) :
                          i # j => e[i][1] # e[j][1]}}

\* "k1": .k1, ..., "kn": .kn
RECURSIVE CopyPairs(_)
CopyPairs(d) ==
  IF d = <<>> THEN <<>>
  ELSE Quoted(d[1][1]) \o <<":", " ", ".">> \o d[1][1]
         \o (IF Len(d) > 1 THEN <<",", " ">> ELSE <<>>) \o CopyPairs(Tail(d))

\* the program { "k1": .k1, ..., "kn": .kn } that copies each key of v by
\* path
CopyProgram(v) == <<"{", " ">> \o CopyPairs(v.v) \o <<" ", "}">>

\* <name>(<arg>)
CallText(name, arg) == name \o <<"(">> \o arg \o <<")">>

\* the programs that read nothing of the input
ClosedPrograms ==
  {LetChain, LetBackwards, LetTwice, LetBodyLines, UnknownCallUnbound,
   SizeUnbound, ConcatTrue, ConcatNull, ConcatInt, DuplicateKey,
   PairWithoutColon, UnboundBeforeBadPair, BadPairBeforeUnbound, LetInString}

\* the operands read from InputKinds by path, with their values
PathOperands == {v \in KindOperands : v[1][1] = "."}

\* <a> <op> <b>, for the operands of every two kinds
OrderingPrograms ==
  {Binary(a[1], op, b[1]) :
     a \in PathOperands, b \in PathOperands, op \in {<<"<">>, <<">", "=">>}}

\* operand texts of boolean(...), with the value each one evaluates to
BooleanOperands ==
  KindOperands \cup
    {<<Quoted(<<"Y", "e", "s">>), PyStr(<<"Y", "e", "s">>)>>,
     <<Quoted(<<"O", "N">>), PyStr(<<"O", "N">>)>>,
     <<Quoted(<<"n", "o">>), PyStr(<<"n", "o">>)>>,
     <<Quoted(<<>>), PyStr(<<>>)>>,
     <<KwFalse, PyBool(FALSE)>>, <<KwNull, PyNone>>,
     <<<<"[", "]">>, PyList(<<>>)>>, <<<<"{", "}">>, PyDict(<<>>)>>}

\* boolean(<v>)
BooleanPrograms ==
  {CallText(<<"b", "o", "o", "l", "e", "a", "n">>, v[1]) : v \in BooleanOperands}

\* operand texts of round(...), with the value each one evaluates to: the
\* ties n + 0.5 on both sides of zero, integers, and decimals off the tie
RoundOperands ==
  {<<<<"0", ".", "5">>, PyFloat(5, 1)>>, <<<<"1", ".", "5">>, PyFloat(15, 1)>>,
   <<<<"2", ".", "5">>, PyFloat(25, 1)>>, <<<<"3", ".", "5">>, PyFloat(35, 1)>>,
   <<<<"-", "0", ".", "5">>, PyFloat(-5, 1)>>,
   <<<<"-", "1", ".", "5">>, PyFloat(-15, 1)>>,
   <<<<"-", "2", ".", "5">>, PyFloat(-25, 1)>>,
   <<<<"2">>, PyInt(2)>>, <<<<"-", "3">>, PyInt(-3)>>,
   <<<<"1", ".", "4">>, PyFloat(14, 1)>>, <<<<"-", "1", ".", "6">>, PyFloat(-16, 1)>>}

\* round(<x>)
RoundPrograms ==
  {CallText(<<"r", "o", "u", "n", "d">>, x[1]) : x \in RoundOperands}

\* the transform calls a host makes: an input and a program
Calls ==
  (Inputs \X Programs) \cup ({InputKinds} \X KindPrograms)
    \cup ({InputEmpty} \X (ClosedPrograms \cup RoundPrograms))
    \cup ({InputKinds} \X (OrderingPrograms \cup BooleanPrograms))
    \cup {<<v, CopyProgram(v)>> : v \in RoundTripInputs}

(***************************************************************************)
(* JSLTService: the state of one service object and the calls made on it.  *)
(* request is the call being made (its arguments), response what the call  *)
(* returned, observed what the run of _evaluate_expression under it did,   *)
(* and bound_before whether a call that has returned ran a program with a  *)
(* let in it.  legacy_response is what the monolithic JSLTService of       *)
(* services/jslt_service.py returned for the same call.                    *)
(***************************************************************************)
VARIABLES variables, functions, evaluators, request, response, observed,
          bound_before, legacy_response

vars ==
  <<variables, functions, evaluators, request, response, observed, bound_before,
    legacy_response>>

NoRequest == [op |-> "none", input_json |-> PyNone, jslt_expression |-> <<>>]

NoResponse == [op |-> "none"]

NoRun ==
  [ok |-> TRUE, val |-> PyNone, err |-> NoError, shrinks |-> TRUE, tried |-> <<>>,
   by |-> "", variables |-> EmptyDict]

\* the service object, as the evaluators reach it through self.service
Service == [variables |-> variables, functions |-> functions, evaluators |-> evaluators]

\* JSLTService(): the service right after construction
NewService ==
  [variables |-> EmptyDict, functions |-> register_builtin_functions,
   evaluators |-> initialize_evaluators]

\* str(e)
ErrorText(err) == [k |-> "error", msg |-> err.msg, arg |-> err.arg]

\* A reset that puts the whole service back to what construction made it.
ResetService(svc) == NewService

\* self.variables = {}
ResetVariables(svc) == [svc EXCEPT !.variables = EmptyDict]

\* what was observed of the top-level _evaluate_expression(..., {}) call r
RunOf(r) ==
  [ok |-> r.ok, val |-> r.val, err |-> r.err, shrinks |-> r.shrinks,
   tried |-> r.tried, by |-> r.by, variables |-> r.variables]

\* transform(input_json, jslt_expression) on the service svc: the response
\* returned and the service as the call leaves it.  execution_time_ms, a
\* reading of the clock, is left out of the response.
\* the class of the exception that carries the message of err
ExceptionClass(err) ==
  CASE err.msg = "maximum recursion depth exceeded" -> "RecursionError"
    [] err.msg \in {"execute() takes 2 positional arguments",
                    "float() argument must be a string or a real number"} ->
         "TypeError"
    [] OTHER -> "ValueError"

\* except ValueError as e: whether the handler catches err
ExceptValueError(err) == ExceptionClass(err) = "ValueError"

\* except Exception as e: whether the handler catches err
ExceptException(err) ==
  ExceptionClass(err) \in {"ValueError", "TypeError", "RecursionError"}

\* What the try statement of transform gives for the evaluation r: the
\* envelope of the try branch, the envelope of the handler, or the
\* exception, which leaves transform when the handler does not catch it.
TransformResponse(r) ==
  IF r.ok
  THEN [op |-> "transform", success |-> TRUE, output |-> r.val, error |-> PyNone]
  ELSE IF ExceptException(r.err)
  THEN [op |-> "transform", success |-> FALSE, output |-> PyNone,
        error |-> ErrorText(r.err)]
  ELSE [op |-> "raised", success |-> FALSE, output |-> PyNone,
        error |-> ErrorText(r.err)]

transform(svc, input_json, jslt_expression) ==
  Let(evaluate_expression(Strip(jslt_expression), input_json, EmptyDict,
                          ResetVariables(svc), 1), LAMBDA r :
    [response |-> TransformResponse(r), svc |-> r.svc, run |-> RunOf(r)])

TextUnknownFunction == <<"U", "n", "k", "n", "o", "w", "n", " ", "f", "u", "n", "c", "t", "i", "o", "n">>

TextInvalidExpression == <<"I", "n", "v", "a", "l", "i", "d", " ", "e", "x", "p", "r", "e", "s", "s", "i", "o", "n">>

\* text in error_msg, for an error_msg that starts with the message msg
InMessage(err, msg, text) == err.msg = msg \/ Contains(err.arg, text)

\* The names of the functions without the parentheses.
RECURSIVE bare_function_names(_)
bare_function_names(fs) ==
  IF fs = <<>> THEN <<>>
  ELSE fs[1][1] \o (IF Len(fs) > 1 THEN <<",", " ">> ELSE <<>>)
         \o bare_function_names(Tail(fs))

\* ", ".join([f"{name}()" for name in self.functions.keys()])
RECURSIVE available_functions(_)
available_functions(fs) ==
  IF fs = <<>> THEN <<>>
  ELSE fs[1][1] \o <<"(", ")">>
         \o (IF Len(fs) > 1 THEN <<",", " ">> ELSE <<>>)
         \o available_functions(Tail(fs))

get_suggestions(svc, err) ==
  (IF InMessage(err, "Unknown function: ", TextUnknownFunction)
   THEN << <<"Available functions: ", available_functions(svc.functions)>> >>
   ELSE <<>>)
  \o
  (IF InMessage(err, "Invalid expression: ", TextInvalidExpression)
   THEN <<"Use .field to access object properties",
          "Use .array[0] to access array elements",
          "Use {} for object construction",
          "Use [] for array construction">>
   ELSE <<>>)

\* validate_jslt(jslt_expression) on the service svc
JSLTValidationResponse(r) ==
  IF r.ok
  THEN [op |-> "validate", valid |-> TRUE, error |-> PyNone, suggestions |-> <<>>]
  ELSE IF ExceptException(r.err)
  THEN [op |-> "validate", valid |-> FALSE, error |-> ErrorText(r.err),
        suggestions |-> get_suggestions(r.svc, r.err)]
  ELSE [op |-> "raised", valid |-> FALSE, error |-> ErrorText(r.err),
        suggestions |-> <<>>]

validate_jslt(svc, jslt_expression) ==
  Let(evaluate_expression(Strip(jslt_expression), test_input, EmptyDict,
                          ResetVariables(svc), 1), LAMBDA r :
    [response |-> JSLTValidationResponse(r), svc |-> r.svc, run |-> RunOf(r)])

Init ==
  /\ variables = EmptyDict
  /\ functions = register_builtin_functions
  /\ evaluators = initialize_evaluators
  /\ request = NoRequest
  /\ response = NoResponse
  /\ observed = NoRun
  /\ bound_before = FALSE
  /\ legacy_response = NoResponse

\* The host calls a method of the service: no call is under way, and the
\* arguments are bound.
Request(op, input_json, jslt_expression) ==
  /\ request.op = "none" \/ response.op # "none"
  /\ request' = [op |-> op, input_json |-> input_json,
                 jslt_expression |-> jslt_expression]
  /\ response' = NoResponse
  /\ observed' = NoRun
  /\ bound_before' = (bound_before \/ Contains(request.jslt_expression, KwLet))
  /\ legacy_response' = NoResponse
  /\ UNCHANGED <<variables, functions, evaluators>>

\* The body of transform runs and returns.
Transform ==
  /\ request.op = "transform"
  /\ response.op = "none"
  /\ \E done \in {transform(Service, request.input_json, request.jslt_expression)} :
         /\ response' = done.response
         /\ observed' = done.run
         /\ variables' = done.svc.variables
         /\ functions' = done.svc.functions
         /\ evaluators' = done.svc.evaluators
  /\ UNCHANGED <<request, bound_before, legacy_response>>

\* The body of validate_jslt runs and returns.
Validate ==
  /\ request.op = "validate"
  /\ response.op = "none"
  /\ \E done \in {validate_jslt(Service, request.jslt_expression)} :
         /\ response' = done.response
         /\ observed' = done.run
         /\ variables' = done.svc.variables
         /\ functions' = done.svc.functions
         /\ evaluators' = done.svc.evaluators
  /\ UNCHANGED <<request, bound_before, legacy_response>>

\* transform and validate_jslt calls, in any order, on one service
Next ==
  \/ \E call \in Calls : Request("transform", call[1], call[2])
  \/ \E jslt_expression \in Programs : Request("validate", PyNone, jslt_expression)
  \/ Transform
  \/ Validate

Spec == Init /\ [][Next]_vars

(***************************************************************************)
(* The evaluator registry: a host that registers evaluators of its own     *)
(* with register_evaluator between the transform calls it makes.           *)
(***************************************************************************)
\* .xs
PathXs ==
  <<".", "x", "s">>

\* [1]
ArrayOfOne ==
  <<"[", "1", "]">>

\* $x + 1
UnboundSum ==
  <<"$", "x", " ", "+", " ", "1">>

\* 1 + 2
OnePlusTwo ==
  <<"1", " ", "+", " ", "2">>

\* size(.xs)
SizeOfXs ==
  <<"s", "i", "z", "e", "(", ".", "x", "s", ")">>

\* if (true) 1 else 2
IfTrue ==
  <<"i", "f", " ", "(", "t", "r", "u", "e", ")", " ", "1", " ", "e", "l",
    "s", "e", " ", "2">>

\* {}
EmptyObject ==
  <<"{", "}">>

\* "a"
StringA ==
  <<"\"", "a", "\"">>

\* single-line expressions, one or more for each evaluator of the package,
\* and one that none of them accepts
DispatchPrograms ==
  {PathXs, BareWord, ArrayOfOne, UnboundSum, OnePlusTwo, SizeOfXs, IfTrue,
   EmptyObject, StringA, UnboundX, UnknownCall}

\* the evaluators the host registers: ahead of every evaluator of the
\* package (one that returns and one that raises), level with the array
\* and object evaluators, and behind all of them
CustomEvaluators ==
  {CustomEvaluator(VariablePriority + 10, ".", FALSE),
   CustomEvaluator(VariablePriority + 10, ".", TRUE),
   CustomEvaluator(ArrayPriority, "[", FALSE),
   CustomEvaluator(LiteralPriority - 30, "f", FALSE)}

\* how many evaluators the host registers at most
MaxRegistered == 2

\* the evaluators of the list that the host registered
Registered == SelectSeq(evaluators, LAMBDA e : e.name = "CustomEvaluator")

\* The host calls register_evaluator(evaluator): no call is under way, and
\* the response of the call before, if any, is taken.
RegisterEvaluator(evaluator) ==
  /\ request.op = "none" \/ response.op # "none"
  /\ Len(Registered) < MaxRegistered
  /\ evaluators' = register_evaluator(evaluators, evaluator)
  /\ request' = NoRequest
  /\ response' = NoResponse
  /\ observed' = NoRun
  /\ bound_before' = (bound_before \/ Contains(request.jslt_expression, KwLet))
  /\ legacy_response' = NoResponse
  /\ UNCHANGED <<variables, functions>>

\* the functions the host registers, by name: a new one, foo, and one in
\* the place of the builtin size; each returns its argument
HostFunction == Len(BUILTIN_FUNCTIONS) + 1

HostFunctionNames == {<<"f", "o", "o">>, <<"s", "i", "z", "e">>}

\* The host calls register_function(func), func.name being name: no call
\* is under way, and the response of the call before, if any, is taken.
RegisterFunction(name) ==
  /\ request.op = "none" \/ response.op # "none"
  /\ functions' = register_function(functions, name, HostFunction)
  /\ request' = NoRequest
  /\ response' = NoResponse
  /\ observed' = NoRun
  /\ bound_before' = (bound_before \/ Contains(request.jslt_expression, KwLet))
  /\ legacy_response' = NoResponse
  /\ UNCHANGED <<variables, evaluators>>

NextRegistry ==
  \/ \E evaluator \in CustomEvaluators : RegisterEvaluator(evaluator)
  \/ \E name \in HostFunctionNames : RegisterFunction(name)
  \/ \E jslt_expression \in DispatchPrograms :
       Request("transform", InputXs, jslt_expression)
  \/ \E jslt_expression \in DispatchPrograms :
       Request("validate", PyNone, jslt_expression)
  \/ Transform
  \/ Validate

SpecRegistry == Init /\ [][NextRegistry]_vars

(***************************************************************************)
(* The path resolver on its own: PathEvaluator.evaluate(expression,        *)
(* context) for a context of any kind and a path of any shape.             *)
(***************************************************************************)
\* {"a": [[1, 2]], "b": {"a": [5]}, "": {"": 1}}
ContextObject ==
  PyDict(<< <<<<"a">>, PyList(<<PyList(<<PyInt(1), PyInt(2)>>)>>)>>,
            <<<<"b">>, PyDict(<< <<<<"a">>, PyList(<<PyInt(5)>>)>> >>)>>,
            <<<<>>, PyDict(<< <<<<>>, PyInt(1)>> >>)>> >>)

\* a context of every kind of value
Contexts ==
  {ContextObject, PyDict(EmptyDict), PyList(<<PyInt(1), PyInt(2)>>),
   PyStr(<<"a">>), PyInt(7), PyFloat(15, 1), PyBool(TRUE), PyNone}

\* the pieces paths are made of: a separator, field names, indexes in
\* range, an index out of range, an index that is no number, an unclosed
\* bracket
Segments ==
  {<<".">>, <<"a">>, <<"b">>, <<"[", "0", "]">>, <<"[", "1", "]">>,
   <<"[", "7", "]">>, <<"[", "x", "]">>, <<"[">>}

\* how many pieces a path has at most
MaxSegments == 3

\* the texts made of n pieces
RECURSIVE SegmentTexts(_)
SegmentTexts(n) ==
  IF n = 0 THEN {<<>>}
  ELSE {text \o segment : text \in SegmentTexts(n - 1), segment \in Segments}

\* the expressions handed to the resolver: a dot, then up to MaxSegments
\* pieces
Paths == {<<".">> \o text : text \in UNION {SegmentTexts(n) : n \in 0..MaxSegments}}

InitPath ==
  /\ variables = EmptyDict
  /\ functions = register_builtin_functions
  /\ evaluators = initialize_evaluators
  /\ request \in {[op |-> "path", input_json |-> context, jslt_expression |-> path] :
                    context \in Contexts, path \in Paths}
  /\ response = NoResponse
  /\ observed = NoRun
  /\ bound_before = FALSE
  /\ legacy_response = NoResponse

\* PathEvaluator.evaluate runs on the path and the context of the request.
ResolvePath ==
  /\ request.op = "path"
  /\ response.op = "none"
  /\ \E out \in {PathEvaluate(request.jslt_expression, request.input_json)} :
       response' = [op |-> "path", ok |-> out.ok, val |-> out.val, err |-> out.err]
  /\ UNCHANGED <<variables, functions, evaluators, request, observed, bound_before,
               legacy_response>>

NextPath == ResolvePath

SpecPath == InitPath /\ [][NextPath]_vars

(***************************************************************************)
(* The splitter: ExpressionParser.split_by_delimiter called on a text with *)
(* the comma for delimiter, as the object, array and function evaluators   *)
(* call it.                                                                *)
(***************************************************************************)
\* the characters the texts are made of: a letter, the delimiter, a
\* bracket that opens and one of another kind that closes, the two quotes,
\* a space
ContentChars == {"a", ",", "(", "]", "\"", "'", " "}

\* how long a text is at most
MaxContent == 4

RECURSIVE ContentsOf(_)
ContentsOf(n) ==
  IF n = 0 THEN {<<>>}
  ELSE {Append(content, c) : content \in ContentsOf(n - 1), c \in ContentChars}

Contents == UNION {ContentsOf(n) : n \in 0..MaxContent}

InitSplit ==
  /\ variables = EmptyDict
  /\ functions = register_builtin_functions
  /\ evaluators = initialize_evaluators
  /\ request \in {[op |-> "split", input_json |-> PyNone, jslt_expression |-> content] :
                    content \in Contents}
  /\ response = NoResponse
  /\ observed = NoRun
  /\ bound_before = FALSE
  /\ legacy_response = NoResponse

\* split_by_delimiter runs on the text of the request.
SplitByDelimiter ==
  /\ request.op = "split"
  /\ response.op = "none"
  /\ response' = [op |-> "split",
                  parts |-> split_by_delimiter(request.jslt_expression, <<",">>)]
  /\ UNCHANGED <<variables, functions, evaluators, request, observed, bound_before,
               legacy_response>>

NextSplit == SplitByDelimiter

SpecSplit == InitSplit /\ [][NextSplit]_vars

\* transform(input_json, jslt_expression) of the monolithic service: the
\* response, without execution_time_ms.  except Exception catches every
\* exception the evaluation raises.
legacy_transform(input_json, jslt_expression) ==
  Let(legacy_evaluate_expression(Strip(jslt_expression), input_json, EmptyDict),
      LAMBDA r :
        IF r.ok
        THEN [op |-> "transform", success |-> TRUE, output |-> r.val,
              error |-> PyNone]
        ELSE [op |-> "transform", success |-> FALSE, output |-> PyNone,
              error |-> ErrorText(r.err)])

\* 1 < 2
OneBelowTwo ==
  <<"1", " ", "<", " ", "2">>

\* let x = 1 in $x
LetInX ==
  <<"l", "e", "t", " ", "x", " ", "=", " ", "1", " ", "i", "n", " ", "$",
    "x">>

\* let x = .xs size($x)
LetThenCall ==
  <<"l", "e", "t", " ", "x", " ", "=", " ", ".", "x", "s", " ", "s", "i",
    "z", "e", "(", "$", "x", ")">>

\* for (.xs) .
ForXs ==
  <<"f", "o", "r", " ", "(", ".", "x", "s", ")", " ", ".">>

\* the programs both services are called on: paths, literals, constructors,
\* calls, comparisons, lets of both forms, an addition, an if and a for
LegacyPrograms ==
  {PathXs, BareWord, ArrayOfOne, OnePlusTwo, SizeOfXs, IfTrue, EmptyObject,
   StringA, UnboundX, UnknownCall, EmptyProgram, OneBelowTwo, LetInX,
   LetThenCall, ForXs, BareLet, MultilineLet, EqualComparisonTexts,
   DuplicateKey, GreetingProgram}

\* The body of transform of the monolithic service runs and returns, for
\* the call of the request.
LegacyTransform ==
  /\ request.op = "transform"
  /\ legacy_response.op = "none"
  /\ legacy_response' = legacy_transform(request.input_json,
                                         request.jslt_expression)
  /\ UNCHANGED <<variables, functions, evaluators, request, response, observed,
                 bound_before>>

\* a host that hands each transform call to both services, in any order
NextLegacy ==
  \/ \E input_json \in Inputs, jslt_expression \in LegacyPrograms :
       Request("transform", input_json, jslt_expression)
  \/ Transform
  \/ LegacyTransform

SpecLegacy == Init /\ [][NextLegacy]_vars

(***************************************************************************)
(* Properties.  TransformReturned says that the call of the request has    *)
(* returned, so that response and observed are those of that call.         *)
(***************************************************************************)
TransformReturned == request.op = "transform" /\ response.op # "none"

\* the call transform(input_json, jslt_expression) has returned
TransformOf(input_json, jslt_expression) ==
  /\ TransformReturned
  /\ request.input_json = input_json
  /\ request.jslt_expression = jslt_expression

\* the response is the success envelope with this output
Yields(output) ==
  response = [op |-> "transform", success |-> TRUE, output |-> output,
              error |-> PyNone]

\* the response is the failure envelope with this message
FailsWith(msg, arg) ==
  response = [op |-> "transform", success |-> FALSE, output |-> PyNone,
              error |-> ErrorText([msg |-> msg, arg |-> arg])]

\* the values of the operand texts
OperandValue(text) ==
  CASE text = <<"1">> -> PyInt(1)
    [] text = <<"2">> -> PyInt(2)
    [] text = Quoted(<<"h", "i">>) -> PyStr(<<"h", "i">>)
    [] text = Quoted(<<",", " ", "w", "o", "r", "l", "d">>) ->
         PyStr(<<",", " ", "w", "o", "r", "l", "d">>)

\* {"msg": "hi, world"}
GreetingOutput ==
  PyDict(<< <<<<"m", "s", "g">>,
              PyStr(<<"h", "i", ",", " ", "w", "o", "r", "l", "d">>)>> >>)

\* C1: an operator expression whose left operand is a variable reference
\* is evaluated as the operator applied to both operands: with x bound,
\* `$x + e` yields the sum or the concatenation of the value of x and e,
\* `$x == e` yields a boolean, and on input {} the greeting program yields
\* {"msg": "hi, world"}.
C1_OperatorAppliedToVariable ==
  /\ TransformOf(InputEmpty, GreetingProgram) => Yields(GreetingOutput)
  /\ \A v \in LeftOperands, e \in RightOperands :
       /\ TransformOf(request.input_json,
                      LetIn(<<"x">>, v, Binary(VarRef(<<"x">>), <<"+">>, e)))
            => Yields(Add(<<OperandValue(v), OperandValue(e)>>))
       /\ TransformOf(request.input_json,
                      LetIn(<<"x">>, v, Binary(VarRef(<<"x">>), <<"=", "=">>, e)))
            => response.success /\ response.output.k = "bool"

\* {"a": 1, "b": 2, "c": 1}
ShadowSiblingOutput ==
  PyDict(<< <<<<"a">>, PyInt(1)>>, <<<<"b">>, PyInt(2)>>, <<<<"c">>, PyInt(1)>> >>)

\* C2: a let never modifies the scope of its caller.  The inner let of
\* `let x = 1 in let x = 2 in $x` shadows x in its body, which yields 2;
\* the siblings of the inner let of `let x = 1 in { "a": $x, "b": let x =
\* 2 in $x, "c": $x }` see the outer value before and after it, which
\* yields {a: 1, b: 2, c: 1}; and the scope a call of transform hands to
\* the evaluation of any program holds no binding when the call returns.
C2_LetKeepsCallerScope ==
  /\ TransformOf(request.input_json, ShadowNested) => Yields(PyInt(2))
  /\ TransformOf(request.input_json, ShadowSibling) => Yields(ShadowSiblingOutput)
  /\ TransformReturned => observed.variables = EmptyDict

C2_SiblingsSeeOuterValue ==
  /\ TransformOf(InputEmpty, ShadowSibling)
  /\ response.success
  /\ DictAt(response.output.v, <<"b">>) = PyInt(2)
  /\ DictAt(response.output.v, <<"c">>) = PyInt(1)

\* C3: in any sequence of transform and validate calls on one service, the
\* response of each transform is the response a newly constructed service
\* gives for the same input and program, and the global scope holds no
\* binding when a call starts (nor when it has returned), whatever the
\* calls before it bound and whether they succeeded or failed.
C3_CallsAreIsolated ==
  /\ variables = EmptyDict
  /\ TransformReturned =>
       response = transform(NewService, request.input_json,
                            request.jslt_expression).response

\* `$x` fails on a service whose earlier calls bound variables
C3_UnboundAfterEarlierLet ==
  /\ bound_before
  /\ TransformOf(InputEmpty, UnboundX)
  /\ FailsWith("Undefined variable: $", <<"x">>)

\* C4: transform never raises to its caller.  When the evaluation raised,
\* it returns the envelope with success false, no output and the message
\* raised as error; otherwise the envelope with success true, the value of
\* the evaluation as output and no error.
C4_TransformReturnsEnvelope ==
  TransformReturned =>
    IF observed.ok THEN Yields(observed.val)
    ELSE FailsWith(observed.err.msg, observed.err.arg)

\* an evaluation that raised an exception other than ValueError
C4_RecursionErrorIsCaught ==
  /\ TransformReturned
  /\ ~observed.ok
  /\ ExceptionClass(observed.err) = "RecursionError"
  /\ ~response.success

\* C5: path resolution is total.  For a context of any kind and any text
\* that starts with a dot, malformed or not, the segment walk ends and
\* returns a value or None, without raising.
C5_PathResolutionIsTotal == response.op = "path" => response.ok

\* .a[x] on a context in which a is an array
C5_NonNumericIndexGivesNull ==
  /\ request.input_json = ContextObject
  /\ request.jslt_expression = <<".", "a", "[", "x", "]">>
  /\ response.op = "path"
  /\ response.ok
  /\ response.val = PyNone

\* C6: every evaluation ends, with a recursion depth bounded by the
\* nesting of the program: every recursive call of _evaluate_expression is
\* made on an expression strictly shorter than its caller's, on the
\* multi-line path too.
C6_EveryCallShrinks ==
  response.op # "none" =>
    /\ observed.shrinks
    /\ ExceptionClass(observed.err) # "RecursionError"

\* the evaluators of the list that accept the expression of the request
Accepting ==
  {i \in 1..Len(evaluators) :
     CanEvaluate(evaluators[i], Strip(request.jslt_expression))}

ByPriority ==
  \A i \in 1..(Len(evaluators) - 1) :
    evaluators[i].priority >= evaluators[i + 1].priority

\* C7, as stated: the evaluator list is in non-increasing order of
\* priority, and every non-empty single-line expression is handed to
\* exactly one evaluator.
C7_HandedToExactlyOne ==
  /\ ByPriority
  /\ TransformReturned => observed.by # ""

\* C7: after construction and after any sequence of register_evaluator
\* calls the evaluator list is in non-increasing order of priority, and
\* _evaluate_expression hands every non-empty single-line expression that
\* some evaluator accepts to exactly one evaluator, the first in that
\* order whose can_evaluate is true: the evaluators before it are
\* consulted and none after it, also when it raises.  An expression that
\* no evaluator accepts is handed to none, after all were consulted, and
\* raises "Invalid expression".
C7_FirstAcceptingEvaluator ==
  /\ ByPriority
  /\ TransformReturned =>
       IF Accepting = {}
       THEN /\ observed.by = ""
            /\ observed.tried = evaluators
            /\ FailsWith("Invalid expression: ", Strip(request.jslt_expression))
       ELSE /\ observed.by = evaluators[Min(Accepting)].name
            /\ observed.tried = SubSeq(evaluators, 1, Min(Accepting))

\* a registered evaluator raises, and the one registered after it with
\* the same priority, which accepts the expression too, is not consulted
C7_ChosenRaisesNoneAfter ==
  /\ TransformOf(InputXs, PathXs)
  /\ Len(evaluators) > 2
  /\ evaluators[1] = CustomEvaluator(VariablePriority + 10, ".", TRUE)
  /\ evaluators[2] = CustomEvaluator(VariablePriority + 10, ".", FALSE)
  /\ observed.tried = <<evaluators[1]>>
  /\ FailsWith("custom evaluator failed: ", PathXs)

\* the program of a loop over array_expr with this body, alone or in the
\* scope of let y = 0
LoopProgram(array_expr, body, in_let) ==
  IF in_let THEN LetIn(<<"y">>, <<"0">>, ForIn(array_expr, body))
  ELSE ForIn(array_expr, body)

\* the scope such a loop receives
LoopScope(in_let) == IF in_let THEN << <<<<"y">>, PyInt(0)>> >> ELSE EmptyDict

\* body evaluated on its own, with item for context, in the scope of the loop
BodyOn(body, item, in_let) ==
  evaluate_expression(body, item, LoopScope(in_let), NewService, 1)

\* what a loop yields: the array of what body gives for each item of the
\* array, in order, when body raises for none
MapsInOrder(items, body, in_let) ==
  IF \A i \in 1..Len(items) : BodyOn(body, items[i], in_let).ok
  THEN Yields(PyList([i \in 1..Len(items) |-> BodyOn(body, items[i], in_let).val]))
  ELSE ~response.success

\* C8: `for (<array_expr>) <body>` maps in order.  When <array_expr>
\* evaluates to an array of length n, the result is an array of length n
\* whose i-th element is <body> evaluated with the i-th element for
\* context and in the scope the for received, so that what the body binds
\* for one element is not seen for the next.  `for (.xs) .` yields .xs.
C8_ForMapsInOrder ==
  /\ TransformOf(InputXs, ForIn(<<".", "x", "s">>, <<".">>))
       => Yields(PyList(<<PyInt(1), PyInt(2), PyInt(3)>>))
  /\ \A body \in BodyTexts, in_let \in BOOLEAN :
       /\ TransformOf(InputXs, LoopProgram(<<".", "x", "s">>, body, in_let))
            => MapsInOrder(<<PyInt(1), PyInt(2), PyInt(3)>>, body, in_let)
       /\ TransformOf(request.input_json,
                      LoopProgram(<<"[", "3", ",", " ", "4", "]">>, body, in_let))
            => MapsInOrder(<<PyInt(3), PyInt(4)>>, body, in_let)

\* [[0, 1], [0, 2], [0, 3]]
RebindingLoopOutput ==
  PyList(<<PyList(<<PyInt(0), PyInt(1)>>), PyList(<<PyInt(0), PyInt(2)>>),
           PyList(<<PyInt(0), PyInt(3)>>)>>)

\* let y = 0 in for (.xs) [$y, let y = . in $y]: every element sees y = 0
C8_EachElementSeesLoopScope ==
  /\ \E body \in BodyTexts :
       /\ Contains(body, KwLet)
       /\ TransformOf(InputXs, LoopProgram(<<".", "x", "s">>, body, TRUE))
  /\ Yields(RebindingLoopOutput)

\* {"count": 3, "doubled": [2, 4, 6]}
SizeDoubledOutput ==
  PyDict(<< <<<<"c", "o", "u", "n", "t">>, PyInt(3)>>,
            <<<<"d", "o", "u", "b", "l", "e", "d">>,
              PyList(<<PyInt(2), PyInt(4), PyInt(6)>>)>> >>)

\* C9, as stated: on input {"xs": [1, 2, 3]} the program
\* `{ "count": size(.xs), "doubled": for (.xs) (. + .) }` yields
\* {"count": 3, "doubled": [2, 4, 6]}.
C9_ParenthesizedBodyIsAddition ==
  TransformOf(InputXs, SizeDoubledParenthesized) => Yields(SizeDoubledOutput)

\* C9: on input {"xs": [1, 2, 3]} the program
\* `{ "count": size(.xs), "doubled": for (.xs) . + . }` yields
\* {"count": 3, "doubled": [2, 4, 6]}: the loop body `. + .` is evaluated
\* as the addition of the current element with itself.  With the body in
\* parentheses, `for (.xs) (. + .)`, the program fails with
\* "Invalid expression: (. + .)".
C9_BodyIsAdditionWithoutParentheses ==
  /\ TransformOf(InputXs, SizeDoubled) => Yields(SizeDoubledOutput)
  /\ TransformOf(InputXs, SizeDoubledParenthesized)
       => FailsWith("Invalid expression: ", <<"(", ".", " ", "+", " ", ".", ")">>)

C9_SizeDoubledYields ==
  TransformOf(InputXs, SizeDoubled) /\ Yields(SizeDoubledOutput)

\* the branch an if with this condition text has selected
Selected(cond, branch) ==
  TransformOf(InputXs, IfElse(cond, ThenText, ElseText)) => Yields(PyStr(branch))

\* C10, as stated: the condition of an if is falsy only when it evaluates
\* to None or to false; every other value, the integer 0, the empty
\* string, the empty array and the empty object among them, selects <then>.
C10_FalsyOnlyNullAndFalse ==
  \A c \in Conditions :
    Selected(c[1], IF c[2] \in {PyNone, PyBool(FALSE)} THEN <<"e">> ELSE <<"t">>)

\* C10: the condition of an if is falsy when it evaluates to None, to
\* false, to a numeric zero, to the empty string, to the empty array or to
\* the empty object; every other value is truthy and selects <then>.
C10_FalsyAsInPython ==
  \A c \in Conditions :
    Selected(c[1],
             IF c[2] \in {PyNone, PyBool(FALSE), PyInt(0), PyFloat(0, 0),
                          PyStr(<<>>), PyList(<<>>), PyDict(EmptyDict)}
             THEN <<"e">> ELSE <<"t">>)

\* if (0) "t" else "e" selects the else branch
C10_ZeroSelectsElse ==
  /\ TransformOf(InputXs, IfElse(<<"0">>, ThenText, ElseText))
  /\ Yields(PyStr(<<"e">>))

\* C11: for every value v other than None and every ordering operator op
\* of <, <=, >, >=, both `null op v` and `v op null` evaluate to false and
\* never to an error.
C11_NullComparesFalse ==
  \A n \in NullTexts, op \in OrderingOperators, v \in KindOperands :
    /\ TransformOf(InputKinds, Binary(n, op, v[1])) => Yields(PyBool(FALSE))
    /\ TransformOf(InputKinds, Binary(v[1], op, n)) => Yields(PyBool(FALSE))

\* .x < .s on an input whose x is null and whose s is a string
C11_NullBelowStringIsFalse ==
  /\ TransformOf(InputKinds, Binary(<<".", "x">>, <<"<">>, <<".", "s">>))
  /\ observed.by = "OperatorEvaluator"
  /\ Yields(PyBool(FALSE))

\* a number with at most one decimal, in tenths
Tenths(val) == IF val.k = "int" THEN 10 * val.v ELSE val.v[1] * Pow10(1 - val.v[2])

RECURSIVE SumTenths(_)
SumTenths(values) ==
  IF values = <<>> THEN 0 ELSE Tenths(Head(values)) + SumTenths(Tail(values))

\* the response to a `+` chain whose parts have these values is typed by
\* them: a string when one is a string, a number equal to their sum when
\* all are numbers, an integer when all are integers
AdditionTyped(values) ==
  /\ response.success
  /\ (\E i \in 1..Len(values) : values[i].k = "str") => response.output.k = "str"
  /\ (\A i \in 1..Len(values) : values[i].k \in {"int", "float"}) =>
       /\ response.output.k \in {"int", "float"}
       /\ Tenths(response.output) = SumTenths(values)
  /\ (\A i \in 1..Len(values) : values[i].k = "int") => response.output.k = "int"

\* C12: the type of the result of a `+` chain is determined by its parts.
\* If any part evaluates to a string the result is a string; if all parts
\* are numeric the result is a number equal to their sum; if all parts are
\* integers the result is an integer.
C12_AdditionTypedByParts ==
  \A a \in AdditionParts, b \in AdditionParts :
    /\ TransformOf(InputKinds, Chain2(a[1], b[1])) => AdditionTyped(<<a[2], b[2]>>)
    /\ TransformOf(InputKinds, Chain3(<<"2">>, a[1], b[1]))
         => AdditionTyped(<<PyInt(2), a[2], b[2]>>)

\* 2 + .n + 2 is the integer 4, and observed as an addition of three parts
C12_IntegerChainIsInteger ==
  /\ TransformOf(InputKinds, Chain3(<<"2">>, <<".", "n">>, <<"2">>))
  /\ observed.by = "OperatorEvaluator"
  /\ Yields(PyInt(4))

\* the resolver has returned for this path on ContextObject, whose a is
\* [[1, 2]]
Resolved(path) ==
  /\ response.op = "path"
  /\ request.input_json = ContextObject
  /\ request.jslt_expression = path

\* C13: an index may directly follow another index.  For a path
\* `.name[i][j]` where the value at name is an array whose i-th element is
\* an array that has a j-th element, the resolver returns that element:
\* `.a[0][1]` on {"a": [[1, 2]]} yields 2, and `.a[0][0]` yields 1.
C13_IndexFollowsIndex ==
  /\ Resolved(<<".", "a", "[", "0", "]", "[", "1", "]">>) => response.val = PyInt(2)
  /\ Resolved(<<".", "a", "[", "0", "]", "[", "0", "]">>) => response.val = PyInt(1)

\* the call validate_jslt(jslt_expression) has returned
ValidateOf(jslt_expression) ==
  /\ request.op = "validate"
  /\ response.op # "none"
  /\ request.jslt_expression = jslt_expression

\* validate_jslt found the program invalid for calling the function foo,
\* with the one suggestion "Available functions: <names>"
UnknownFoo(names) ==
  response = [op |-> "validate", valid |-> FALSE,
              error |-> ErrorText([msg |-> "Unknown function: ",
                                   arg |-> <<"f", "o", "o">>]),
              suggestions |-> << <<"Available functions: ", names>> >>]

\* the registered names listed bare: size, string, number, boolean, round
BareNames ==
  <<"s", "i", "z", "e", ",", " ", "s", "t", "r", "i", "n", "g", ",", " ",
    "n", "u", "m", "b", "e", "r", ",", " ", "b", "o", "o", "l", "e", "a",
    "n", ",", " ", "r", "o", "u", "n", "d">>

\* the registered names listed as calls: size(), string(), number(), boolean(), round()
CalledNames ==
  <<"s", "i", "z", "e", "(", ")", ",", " ", "s", "t", "r", "i", "n", "g",
    "(", ")", ",", " ", "n", "u", "m", "b", "e", "r", "(", ")", ",", " ",
    "b", "o", "o", "l", "e", "a", "n", "(", ")", ",", " ", "r", "o", "u",
    "n", "d", "(", ")">>

\* C14, as stated: validate("foo(.x)") returns valid=false, the error
\* "Unknown function: foo" and the one suggestion "Available functions:
\* size, string, number, boolean, round", and validate(".a.b") returns
\* valid=true.
C14_SuggestsBareNames ==
  /\ ValidateOf(UnknownCall) => UnknownFoo(BareNames)
  /\ ValidateOf(PathAB) => response.valid

\* C14: validate of a program that calls an unregistered function reports
\* it with the registered names listed each followed by "()":
\* validate("foo(.x)") returns valid=false, the error "Unknown function:
\* foo" and the one suggestion "Available functions: size(), string(),
\* number(), boolean(), round()", and validate(".a.b") returns valid=true.
C14_SuggestsNamesAsCalls ==
  /\ ValidateOf(UnknownCall) => UnknownFoo(CalledNames)
  /\ ValidateOf(PathAB) =>
       response = [op |-> "validate", valid |-> TRUE, error |-> PyNone,
                   suggestions |-> <<>>]

\* validate("foo(.x)") has answered with one suggestion
C14_UnknownFunctionSuggested ==
  /\ ValidateOf(UnknownCall)
  /\ ~response.valid
  /\ Len(response.suggestions) = 1

\* the programs in which an expression is empty or only whitespace
EmptyExpressionPrograms == {EmptyProgram, Blank, EmptyPairValue, EmptyElement}

WordKeys(v) ==
  \A i \in 1..Len(v.v) :
    /\ v.v[i][1] # <<>>
    /\ \A n \in 1..Len(v.v[i][1]) : IsWord(v.v[i][1][n])

\* C16, as stated: for every object input v with keys k1..kn, the program
\* { "k1": .k1, ..., "kn": .kn } that copies each key by path yields a
\* value equal to v.
C16_ObjectRoundTrip ==
  \A v \in RoundTripInputs : TransformOf(v, CopyProgram(v)) => Yields(v)

\* C16: for every object input v whose keys k1..kn are words (letters,
\* digits and underscores, at least one), the program
\* { "k1": .k1, ..., "kn": .kn } that copies each key by path yields a
\* value equal to v.
C16_WordKeysRoundTrip ==
  \A v \in RoundTripInputs :
    WordKeys(v) => (TransformOf(v, CopyProgram(v)) => Yields(v))

\* an object of two word keys, one of them holding an array, is copied
C16_TwoKeysCopied ==
  /\ request.input_json \in RoundTripInputs
  /\ WordKeys(request.input_json)
  /\ Len(request.input_json.v) = 2
  /\ request.input_json.v[2][2].k = "list"
  /\ TransformOf(request.input_json, CopyProgram(request.input_json))
  /\ Yields(request.input_json)

\* C17: when an operator expression is evaluated, the choice of the
\* operator and the place of the split use only the occurrences of
\* ` <op> ` at depth zero and outside string literals; an occurrence
\* inside a string literal or inside brackets is never used.  So
\* `"a" + "b > c"` is a concatenation that yields "ab > c", and
\* `"x > y" == "x > y"` is an equality of two strings that yields true.
C17_TopLevelOperatorOnly ==
  /\ TransformOf(request.input_json, ConcatComparisonText)
       => Yields(PyStr(<<"a", "b", " ", ">", " ", "c">>))
  /\ TransformOf(request.input_json, EqualComparisonTexts)
       => Yields(PyBool(TRUE))

\* C20: in a flowed `let <name> = <value> <tail>` the value ends at the
\* earliest keyword let, for or if that is outside every string literal
\* and outside all brackets.  A keyword inside a string or a bracket of the
\* value does not end it: `let x = "a for b"` binds the string and yields
\* "a for b", and `let x = [1, if (.a) 2 else 3]` binds the array and, .a
\* being absent, yields [1, 3].  With no such keyword the whole text is the
\* value and the tail is empty: `let x = 1` yields 1.
C20_KeywordInsideValueDoesNotEndIt ==
  /\ TransformOf(request.input_json, LetStringWithFor)
       => Yields(PyStr(<<"a", " ", "f", "o", "r", " ", "b">>))
  /\ TransformOf(request.input_json, LetArrayWithIf)
       => Yields(PyList(<<PyInt(1), PyInt(3)>>))
  /\ TransformOf(request.input_json, BareLet) => Yields(PyInt(1))

\* split_by_delimiter has returned for the text of the request
SplitReturned == request.op = "split" /\ response.op = "split"

\* where the loop of split_by_delimiter stands before it reads position i:
\* its depth, and the quote of the string literal it is in ("" for none)
RECURSIVE ScanBefore(_, _)
ScanBefore(content, i) ==
  IF i = 1 THEN <<0, "">>
  ELSE Let(ScanBefore(content, i - 1), LAMBDA before :
         Let(content[i - 1], LAMBDA char :
           IF before[2] = "" /\ char \in Quotes THEN <<before[1], char>>
           ELSE IF before[2] # "" /\ char = before[2] THEN <<before[1], "">>
           ELSE IF before[2] # "" THEN before
           ELSE IF char \in OpeningChars THEN <<before[1] + 1, "">>
           ELSE IF char \in ClosingChars THEN <<before[1] - 1, "">>
           ELSE before))

\* the delimiters at bracket depth zero and outside a string literal
TopDelimiters(content) ==
  {i \in 1..Len(content) : content[i] = "," /\ ScanBefore(content, i) = <<0, "">>}

\* the text ends, whitespace apart, with a delimiter at depth zero outside
\* a string literal
EndsWithDelimiter(content) ==
  Let(Last({i \in 1..Len(content) : ~IsSpace(content[i])}, 0), LAMBDA last :
    last \in TopDelimiters(content))

\* the parts concatenated with the delimiter
RECURSIVE Joined(_)
Joined(parts) ==
  IF parts = <<>> THEN <<>>
  ELSE IF Len(parts) = 1 THEN parts[1]
  ELSE parts[1] \o <<",">> \o Joined(Tail(parts))

\* a text without its whitespace
Squeezed(s) == SelectSeq(s, LAMBDA c : ~IsSpace(c))

\* C18, as stated: split_by_delimiter splits only at the delimiters at
\* bracket depth zero and outside a string literal, and concatenating the
\* parts with the delimiter restores the input up to whitespace.
C18_JoinRestoresInput ==
  SplitReturned =>
    /\ Len(response.parts) <= Cardinality(TopDelimiters(request.jslt_expression)) + 1
    /\ Squeezed(Joined(response.parts)) = Squeezed(request.jslt_expression)

\* C18: split_by_delimiter splits only at the delimiters at bracket depth
\* zero and outside a string literal: a delimiter inside brackets of any
\* mix of kinds, or between a quote and the next identical quote, never
\* starts a new part.  Concatenating the parts with the delimiter restores
\* the input up to whitespace, except that a delimiter with nothing but
\* whitespace after it at the end of the input is dropped.
C18_JoinRestoresInputButLastDelimiter ==
  SplitReturned =>
    IF EndsWithDelimiter(request.jslt_expression)
    THEN /\ Len(response.parts) = Cardinality(TopDelimiters(request.jslt_expression))
         /\ Squeezed(Joined(response.parts)) \o <<",">>
              = Squeezed(request.jslt_expression)
    ELSE /\ Len(response.parts)
              = Cardinality(TopDelimiters(request.jslt_expression)) + 1
         /\ Squeezed(Joined(response.parts)) = Squeezed(request.jslt_expression)

\* `(a,]` followed by a delimiter: the one inside the brackets starts no
\* part, the one after them does
C18_NestedDelimiterKept ==
  /\ SplitReturned
  /\ request.jslt_expression = <<"(", ",", "]", ",">>
  /\ response.parts = << <<"(", ",", "]">> >>

\* C19: every part that split_by_delimiter returns is trimmed and not
\* empty: consecutive, leading or trailing delimiters, as in `a,,b` or
\* `,a`, produce no empty part, and an input in which nothing is split
\* yields the list of the one trimmed input.
C19_PartsTrimmedAndNonEmpty ==
  (SplitReturned /\ Strip(request.jslt_expression) # <<>>) =>
    /\ \A i \in 1..Len(response.parts) :
         /\ response.parts[i] = Strip(response.parts[i])
         /\ response.parts[i] # <<>>
    /\ TopDelimiters(request.jslt_expression) = {}
         => response.parts = <<Strip(request.jslt_expression)>>


\* C21: in multi-line preprocessing the let lines are evaluated in textual
\* order, each value in the scope of the caller extended by the let lines
\* before it; the other non-empty lines, joined by newlines, are evaluated
\* once in the scope of all bindings; and the caller's scope mapping is
\* left as it was.  `let x = 1\nlet y = $x\n[$x, $y]` yields [1, 1]; with
\* the two let lines exchanged the value of y finds no x and the call
\* fails; of two let lines for x the later one is seen by the body; body
\* lines `{`, `"a": $x`, `}` are one object constructor; and the scope
\* handed to the top-level call is empty after every such run.
C21_LetLinesChainInOrder ==
  /\ TransformOf(InputEmpty, LetChain) => Yields(PyList(<<PyInt(1), PyInt(1)>>))
  /\ TransformOf(InputEmpty, LetBackwards)
       => FailsWith("Undefined variable: $", <<"x">>)
  /\ TransformOf(InputEmpty, LetTwice) => Yields(PyInt(2))
  /\ TransformOf(InputEmpty, LetBodyLines)
       => Yields(PyDict(<< <<<<"a">>, PyInt(1)>> >>))
  /\ (TransformReturned /\ observed.by = "multiline")
       => observed.variables = EmptyDict

\* the second let line has read the binding of the first, and the body both
C21_SecondLetSeesFirst ==
  /\ TransformOf(InputEmpty, LetChain)
  /\ observed.by = "multiline"
  /\ Yields(PyList(<<PyInt(1), PyInt(1)>>))
  /\ observed.variables = EmptyDict


\* C22 as stated: every argument of a call is evaluated before the name is
\* looked up, so that `foo($u)`, with foo not registered and u not bound,
\* reports the error of the argument.
C22_ArgumentErrorBeforeUnknownFunction ==
  TransformOf(InputEmpty, UnknownCallUnbound)
    => FailsWith("Undefined variable: $", <<"u">>)

\* C22: in a call name(args) the name is looked up in the function table
\* before any argument is evaluated.  `foo($u)`, with foo not registered
\* and u not bound, fails with "Unknown function: foo"; the error of an
\* argument is reported when the name is registered: `size($u)` fails with
\* "Undefined variable: $u".
C22_NameLookedUpBeforeArguments ==
  /\ TransformOf(InputEmpty, UnknownCallUnbound)
       => FailsWith("Unknown function: ", <<"f", "o", "o">>)
  /\ TransformOf(InputEmpty, SizeUnbound)
       => FailsWith("Undefined variable: $", <<"u">>)

\* foo($u) has failed on the name, the argument not looked at
C22_UnknownNameReported ==
  /\ TransformOf(InputEmpty, UnknownCallUnbound)
  /\ observed.by = "FunctionEvaluator"
  /\ FailsWith("Unknown function: ", <<"f", "o", "o">>)


\* the host registers an evaluator or a function in this step
Registers ==
  \/ \E evaluator \in CustomEvaluators : RegisterEvaluator(evaluator)
  \/ \E name \in HostFunctionNames : RegisterFunction(name)

\* C23: transform and validate_jslt leave the function table and the
\* evaluator list, members and order, as they were, whether the evaluation
\* succeeds or fails; a step that changes either of them is a call of
\* register_function or of register_evaluator.
C23_CallsLeaveTablesUnchanged ==
  [][/\ (Transform \/ Validate) => UNCHANGED <<functions, evaluators>>
     /\ ~UNCHANGED <<functions, evaluators>> => Registers]_vars

\* a transform has failed on a service with an evaluator and a function
\* of the host registered, and both are still there
C23_FailedCallKeptRegistrations ==
  /\ TransformReturned
  /\ ~response.success
  /\ Len(Registered) = MaxRegistered
  /\ DictHas(functions, <<"f", "o", "o">>)
  /\ DictAt(functions, <<"s", "i", "z", "e">>) = HostFunction


\* C24: when a part of a + chain is a string, the result is the parts'
\* display forms joined in order, None giving the empty string and a bool,
\* an int or a float its JSON rendering: `"a" + true` yields "atrue",
\* `"n=" + 3` yields "n=3", `"a" + null` yields "a".
C24_StringChainJoinsJsonRenderings ==
  /\ TransformOf(InputEmpty, ConcatTrue) => Yields(PyStr(<<"a">> \o KwTrue))
  /\ TransformOf(InputEmpty, ConcatInt) => Yields(PyStr(<<"n", "=", "3">>))
  /\ TransformOf(InputEmpty, ConcatNull) => Yields(PyStr(<<"a">>))

\* the type of a value as the comparison rule counts types: the numbers
\* are one type
ValueType(val) == IF val.k \in {"int", "float"} THEN "number" ELSE val.k

\* C25: an ordering comparison between two operands that are not None and
\* are of different types (string and number, bool and number, array and
\* object, and so on) yields false and does not raise.
C25_CrossTypeOrderingIsFalse ==
  \A a \in PathOperands, b \in PathOperands, op \in OrderingOperators :
    (/\ ValueType(a[2]) # ValueType(b[2])
     /\ TransformOf(InputKinds, Binary(a[1], op, b[1])))
      => Yields(PyBool(FALSE))

\* the keys of the entries of a dict
KeysOf(d) == {d[i][1] : i \in 1..Len(d)}

\* C26: an object constructor returns one entry for each distinct key,
\* with the value of the last pair of that key, the value expressions of
\* the pairs being evaluated from left to right; a pair without a colon
\* makes the constructor fail.  `{ "a": 1, "b": 2, "a": 3 }` yields
\* {"a": 3, "b": 2}; in `{ "a": $u, "b" }` the unbound $u of the first pair
\* is reported, in `{ "b", "a": $u }` the pair without a colon.
C26_LastPairOfKeyWins ==
  /\ TransformOf(InputEmpty, DuplicateKey)
       => Yields(PyDict(<< <<<<"a">>, PyInt(3)>>, <<<<"b">>, PyInt(2)>> >>))
  /\ TransformOf(InputEmpty, PairWithoutColon)
       => FailsWith("Invalid object pair: ", Quoted(<<"b">>))
  /\ TransformOf(InputEmpty, UnboundBeforeBadPair)
       => FailsWith("Undefined variable: $", <<"u">>)
  /\ TransformOf(InputEmpty, BadPairBeforeUnbound)
       => FailsWith("Invalid object pair: ", Quoted(<<"b">>))
  /\ (TransformReturned /\ observed.by = "ObjectEvaluator" /\ response.success)
       => Cardinality(KeysOf(response.output.v)) = Len(response.output.v)

\* the constructor with the key a twice has returned the later value in
\* the place of the first
C26_DuplicateKeyResolved ==
  /\ TransformOf(InputEmpty, DuplicateKey)
  /\ observed.by = "ObjectEvaluator"
  /\ response.success
  /\ DictAt(response.output.v, <<"a">>) = PyInt(3)
  /\ Len(response.output.v) = 2

\* boolean(v) as C27 states it: every value that is not a bool, a string,
\* a number or None gives true
BooleanAsStated(val) ==
  CASE val.k = "bool" -> val.v
    [] val.k = "str" -> Lower(val.v) \in BooleanTrueWords
    [] val.k \in {"int", "float"} -> val # PyInt(0) /\ val # PyFloat(0, 0)
    [] val.k = "null" -> FALSE
    [] OTHER -> TRUE

\* C27 as stated: boolean(v) is v for a bool, for a string whether its
\* lowercase form is one of true, 1, yes, on, for a number whether it is
\* not zero, false for None, and true for every other value, the empty
\* array and the empty object among them.
C27_BooleanOtherIsTrue ==
  \A v \in BooleanOperands :
    TransformOf(InputKinds, CallText(<<"b", "o", "o", "l", "e", "a", "n">>, v[1]))
      => Yields(PyBool(BooleanAsStated(v[2])))

\* C27: boolean(v) is v for a bool, for a string whether its lowercase
\* form is one of true, 1, yes, on, for a number whether it is not zero,
\* false for None, and for an array or an object whether it is not empty:
\* boolean([]) and boolean({}) are false.
C27_BooleanOfContainerIsNonEmpty ==
  \A v \in BooleanOperands :
    TransformOf(InputKinds, CallText(<<"b", "o", "o", "l", "e", "a", "n">>, v[1]))
      => Yields(PyBool(IF v[2].k \in {"list", "dict"} THEN v[2].v # <<>>
                       ELSE BooleanAsStated(v[2])))

\* boolean([]) has returned false
C27_EmptyArrayIsFalse ==
  /\ TransformOf(InputKinds, CallText(<<"b", "o", "o", "l", "e", "a", "n">>,
                                      <<"[", "]">>))
  /\ observed.by = "FunctionEvaluator"
  /\ Yields(PyBool(FALSE))

\* x = m / 10^d rounded to the nearest integer, a tie away from zero
RoundHalfAwayFromZero(m, d) ==
  IF m >= 0 THEN (2 * m + Pow10(d)) \div (2 * Pow10(d))
  ELSE -((2 * (-m) + Pow10(d)) \div (2 * Pow10(d)))

\* C28: round(x) is the integer nearest to x, a tie going away from zero:
\* round(0.5) = 1, round(2.5) = 3, round(-2.5) = -3, and round of an
\* integer is that integer.
C28_RoundsHalfAwayFromZero ==
  \A x \in RoundOperands :
    TransformOf(InputEmpty, CallText(<<"r", "o", "u", "n", "d">>, x[1]))
      => Yields(PyInt(RoundHalfAwayFromZero(Decimal(x[2])[1], Decimal(x[2])[2])))

\* C30: in `let <name> = <value> in <body>` the in that ends the value is
\* one outside string literals and brackets: `let x = "a in b" in $x`
\* binds x to the whole string and yields "a in b".
C30_InInsideStringDoesNotEndValue ==
  TransformOf(InputEmpty, LetInString)
    => Yields(PyStr(<<"a", " ", "i", "n", " ", "b">>))


\* both services have returned for the call of the request
BothReturned ==
  /\ request.op = "transform"
  /\ response.op # "none"
  /\ legacy_response.op # "none"

\* C29: the monolithic JSLTService and the evaluator-based JSLTService are
\* observationally equivalent: for every input and every program, if, for,
\* let ... in ... and + programs among them, the two transform calls
\* return the same success flag and the same output.
C29_LegacyAndRefactoredAgree ==
  BothReturned =>
    /\ legacy_response.success = response.success
    /\ legacy_response.output = response.output

=============================================================================
